---- MODULE Spec2Model ----
(***************************************************************************)
(* Model of the PAI notifier's authenticated acquisition path              *)
(* (src/src/examMonitor.js): the per-user session map, login, session      *)
(* validity, getSession / clearSession, fetchExamPage, fetchExamListForUser *)
(* and fetchExamResultPdf.                                                  *)
(*                                                                         *)
(* Node runs the code on one thread, so a step of the model is the code    *)
(* that runs between two network waits: an operation is started (the code  *)
(* up to the first axios call), or a pending axios call is answered (the   *)
(* code from that answer up to the next axios call or the return).  The    *)
(* server is the environment: each answer is chosen nondeterministically.  *)
(***************************************************************************)
EXTENDS Integers, Sequences, FiniteSets, TLC

\* ------------------------------------------------------------------ bounds
MaxOps == 2        \* operations started in one behaviour
MaxChecks == 2     \* checks and /check commands started in one behaviour
MaxMinutes == 13   \* minutes the cron job runs for
MaxRows == 2       \* rows of an exam table
MaxLinks == 2      \* anchors in the action column of a row
MaxCookies == 2    \* Set-Cookie headers of a login answer

\* --------------------------------------------------------- program constants
SESSION_MS == 36000000     \* 36000 * 1000, extractSessionFromResponse
BUFFER_MS == 300000        \* 5 * 60 * 1000, isSessionValid

\* ------------------------------------------------------------ input domains
Procs == {1, 2}

\* A raw user id as a caller passes it: a number (msg.from.id) or a string.
UserIds == {[kind |-> "num", v |-> 1], [kind |-> "str", v |-> 2]}

\* String(userId): the number 1 and the string "1" give the same key.
String(userId) == [kind |-> "str", v |-> userId.v]

\* The instants the clock shows: the start, and the first instant at which a
\* session issued at the start is no longer valid.
Instants == {0, SESSION_MS - BUFFER_MS}

\* Set-Cookie header of a login answer, for a fresh token value tok.
\* A cookie is [name, value]; value "" stands for "ci_session=;..." which the
\* prefix test accepts and the capture /ci_session=([^;]+)/ rejects.
CookieLists(tok) ==
    { << >>,
      << [name |-> "other", value |-> tok] >>,
      << [name |-> "ci_session", value |-> tok] >>,
      << [name |-> "other", value |-> tok + 100],
         [name |-> "ci_session", value |-> tok] >>,
      << [name |-> "ci_session", value |-> 0],
         [name |-> "ci_session", value |-> tok] >>,
      << [name |-> "ci_session", value |-> tok],
         [name |-> "ci_session", value |-> tok + 100] >> }

\* Answers to the login POST: a response axios accepts (status 200..399), a
\* response it rejects (error.response set), or no response at all.
LoginAnswers(tok) ==
    { [kind |-> k, cookies |-> c] : k \in {"ok", "errResp"}, c \in CookieLists(tok) }
    \cup { [kind |-> "errNoResp", cookies |-> << >>] }

\* Exam pages.  A page is [empty, hasTable, rows]; a row is [ncells, kode,
\* links]: the number of its td cells, the text of the first one and the
\* anchors of the sixth, each [text, href]. Texts are strings of characters.
LoginPage == [empty |-> FALSE, hasTable |-> FALSE, rows |-> << >>]

KODE == << "K", "O", "D", "E" >>

Pages ==
    { [empty |-> TRUE, hasTable |-> FALSE, rows |-> << >>],
      [empty |-> FALSE, hasTable |-> TRUE,
       rows |-> << [ncells |-> 6, kode |-> KODE, links |-> << >>],
                   [ncells |-> 6, kode |-> << "A", "1" >>,
                    links |-> << [text |-> << "D", "e", "t", "a", "i", "l" >>, href |-> 1],
                                 [text |-> << "B", "a", "y", "a", "r" >>, href |-> 2] >>],
                   [ncells |-> 5, kode |-> << "A", "2" >>, links |-> << >>],
                   [ncells |-> 7, kode |-> << >>, links |-> << >>],
                   [ncells |-> 7, kode |-> << "A", "3" >>, links |-> << >>] >>] }

\* Answers to the exam page GET: the page itself, a page reached after a
\* redirect to /page/login, or an axios error.
FetchAnswers ==
    { [kind |-> "page", html |-> h] : h \in Pages }
    \cup { [kind |-> "loginRedirect", html |-> LoginPage] }
    \cup { [kind |-> "error", html |-> LoginPage] }


\* ------------------------------------------------------------------- state
VARIABLES
    userSessions,   \* the Map: a function from its keys to {cookie, expiry}
    now,            \* Date.now()
    started,        \* operations started so far
    pc,             \* per call: the axios call it waits for
    attempt,        \* per call: 1 on the fresh attempt, 2 on the retried one
    op,             \* per call: the function called
    userId,         \* per call: the userId argument
    cookie,         \* per call: cookie / newCookie (0 is null)
    result,         \* per call: the value returned
    logins,         \* per call: login POSTs issued
    fetches,        \* per call: GETs issued
    loginLog,       \* per call: what each login returned
    fetchLog,       \* per call: how each GET was answered
    sentLog,        \* per call: the cookie each GET carried
    clears,         \* per call: clearSession calls made
    cached,         \* per call: its first getSession found a valid session
    issuedAt,       \* per stored session: Date.now() of the login it came from
    silent,         \* per call: the server will never answer its request
    raised,         \* per call: an exception has left the function called
    scrapePc,       \* scraper: what it waits for
    allPages,       \* scrapeArticles: its argument
    offset,         \* scrapeArticles: the loop variable
    allArticles,    \* scrapeArticles: the Map, its values in insertion order
    scrapeResult,   \* scrapeArticles: the list returned or the error thrown
    page,           \* the html handed to parseArticles
    parsed,         \* what parseArticles returned for it
    pageFetches,    \* fetchNewsPage calls issued by the scrape
    pageFailures,   \* page requests of the scrape that failed
    firsts,         \* per id: title and url of its first anchor with text,
                    \* over the pages fetched so far in fetch order
    currentList,    \* the list handed to getNewArticles
    seenSet,        \* the Set of seen ids in memory
    seenFile,       \* data/seen_articles.json
    newLog,         \* what the calls of getNewArticles returned since the
                    \* last markArticlesAsSeen
    marked,         \* the last markArticlesAsSeen call: its articles and
                    \* the Set it was given
    checks,         \* per handler: the locals of a running checkForUpdates
                    \* or /check handler and what it has done
    phase,          \* main: before, in, or after the startup check
    checksStarted,  \* checks and /check commands started so far
    delivered,      \* per chat and article id: notifications that carried it
    writeFailed,    \* some write of the seen-articles file has failed
    prefs,          \* data/user_preferences.json
    tickNow,        \* runPerUserChecks: Date.now() of the latest cron tick
    userLastCheck,  \* the Map userLastCheck of index.js
    tickLog,        \* the latest tick: what it found and what it called
    called,         \* the function called last on its own
    given,          \* its arguments
    returned,       \* the value it returned
    allowedUsers,   \* data/allowed_users.json: its userIds
    accessRequests, \* data/access_requests.json: the userIds of its requests
    botLog,         \* the message or button press the bot handled last
    deleting,       \* per user: the text of a password message whose
                    \* deleteMessage the handler awaits (empty: none)
    args,           \* per call: the email and password it was given
    loginOf         \* per token: the email and password of the login POST
                    \* that returned it

sessionVars == << userSessions, now, started, pc, attempt, op, userId, cookie,
                  result, logins, fetches, loginLog, fetchLog, sentLog, clears,
                  cached, issuedAt >>

scrapeVars == << scrapePc, allPages, offset, allArticles, scrapeResult, page,
                 parsed, pageFetches, pageFailures, firsts >>

seenVars == << currentList, seenSet, seenFile, newLog, marked >>

checkVars == << checks, phase, checksStarted, delivered, writeFailed, prefs >>

schedVars == << tickNow, userLastCheck, tickLog >>

callVars == << called, given, returned >>

accessVars == << allowedUsers, accessRequests, botLog, deleting >>

credVars == << args, loginOf >>

vars == << sessionVars, silent, raised, scrapeVars, seenVars, checkVars, schedVars,
           callVars, accessVars, credVars >>

\* null, and a returned value
Null == [isNull |-> TRUE, val |-> << >>]
Val(v) == [isNull |-> FALSE, val |-> v]

\* A catch block that rethrows what it caught.
Catch_Rethrow(threw) == threw

\* catch (error) { console.error(...) }: what was thrown inside the try ends
\* in the catch block, nothing leaves the function.
Catch(threw) == FALSE

\* ------------------------------------------------------------ the Map type
MapHas(m, k) == k \in DOMAIN m
MapSet(m, k, v) == [x \in (DOMAIN m) \cup {k} |-> IF x = k THEN v ELSE m[x]]
MapDelete(m, k) == [x \in (DOMAIN m) \ {k} |-> m[x]]

\* ------------------------------------------------------------------- login
RECURSIVE FirstSessionCookie(_)
\* The loop of extractSessionFromResponse: the first cookie that starts with
\* "ci_session=" and whose value the capture accepts; 0 when there is none.
FirstSessionCookie(cookies) ==
    IF cookies = << >> THEN 0
    ELSE IF Head(cookies).name = "ci_session" /\ Head(cookies).value # 0
         THEN Head(cookies).value
         ELSE FirstSessionCookie(Tail(cookies))

NoSession == [cookie |-> 0, expiry |-> 0]

extractSessionFromResponse(cookies, t) ==
    IF FirstSessionCookie(cookies) # 0
    THEN [cookie |-> FirstSessionCookie(cookies), expiry |-> t + SESSION_MS]
    ELSE NoSession

\* login that looks at the cookies of an accepted response only.
login_AcceptedOnly(answer, t) ==
    IF answer.kind = "ok" THEN extractSessionFromResponse(answer.cookies, t)
    ELSE NoSession

\* login: the session of an accepted response, else the session of the
\* response attached to the error, else null.
login(answer, t) ==
    IF answer.kind = "ok" THEN extractSessionFromResponse(answer.cookies, t)
    ELSE IF answer.kind = "errResp" THEN extractSessionFromResponse(answer.cookies, t)
    ELSE NoSession

\* Whether login throws to its caller: axios.post rejects unless the status
\* is below 400, inside the try.
loginThrows(answer) == Catch(answer.kind # "ok")

\* What a caller of login can tell apart (the ghost log of a call).
LoginClass(answer, t) ==
    IF login(answer, t) # NoSession THEN "session"
    ELSE IF answer.kind = "errNoResp" THEN "transport"
    ELSE "nocookie"

\* ----------------------------------------------------------- session store
\* isSessionValid without the 5 minute buffer.
isSessionValid_NoBuffer(m, uid, t) ==
    IF ~MapHas(m, String(uid)) THEN FALSE
    ELSE t < m[String(uid)].expiry

\* isSessionValid with the comparison off by one.
isSessionValid_OffByOne(m, uid, t) ==
    IF ~MapHas(m, String(uid)) THEN FALSE
    ELSE t <= m[String(uid)].expiry - BUFFER_MS

isSessionValid(m, uid, t) ==
    IF ~MapHas(m, String(uid)) THEN FALSE
    ELSE t < m[String(uid)].expiry - BUFFER_MS

\* The key without String().
SessionKey_Raw(uid) == uid

\* const uid = String(userId): the key getSession stores under.
SessionKey(uid) == String(uid)

\* A renewal that keeps the expiry of the entry it replaces.
StoreAfterLogin_Merge(m, uid, session) ==
    IF session = NoSession THEN m
    ELSE IF MapHas(m, SessionKey(uid))
         THEN MapSet(m, SessionKey(uid),
                     [cookie |-> session.cookie, expiry |-> m[SessionKey(uid)].expiry])
         ELSE MapSet(m, SessionKey(uid), session)

\* A failed login that evicts the entry of the user.
StoreAfterLogin_Evict(m, uid, session) ==
    IF session # NoSession THEN MapSet(m, SessionKey(uid), session)
    ELSE MapDelete(m, SessionKey(uid))

\* The store after getSession has received its login's session.
StoreAfterLogin(m, uid, session) ==
    IF session # NoSession THEN MapSet(m, SessionKey(uid), session) ELSE m

clearSession(m, uid) == MapDelete(m, String(uid))

\* ------------------------------------------------------------ fetchExamPage
NullHtml == [isNull |-> TRUE, empty |-> TRUE, hasTable |-> FALSE, rows |-> << >>]
Html(h) == [isNull |-> FALSE, empty |-> h.empty, hasTable |-> h.hasTable, rows |-> h.rows]

\* fetchExamPage: null after a redirect to the login page and after an axios
\* error, else response.data.
fetchExamPage(answer) ==
    IF answer.kind = "error" THEN NullHtml
    ELSE IF answer.kind = "loginRedirect" THEN NullHtml
    ELSE Html(answer.html)

\* Whether fetchExamPage throws to its caller: axios.get rejects inside the
\* try.
fetchExamPageThrows(answer) == Catch(answer.kind = "error")

\* How a GET was answered (the ghost log of a call).
FetchClass(a) == IF a.kind = "page" /\ a.html.empty THEN "empty" ELSE a.kind

\* !html: null and the empty string are both falsy.
Falsy(html) == html.isNull \/ html.empty

\* ------------------------------------------------------------ parseExamTable
RECURSIVE TrimStart(_)
TrimStart(s) == IF s # << >> /\ Head(s) = " " THEN TrimStart(Tail(s)) ELSE s

Reverse(s) == [i \in 1..Len(s) |-> s[Len(s) + 1 - i]]

\* String.prototype.trim
trim(s) == Reverse(TrimStart(Reverse(TrimStart(s))))

\* The letters toLowerCase changes in the labels of the pages.
UpperLetters == << "A", "B", "C", "D", "E", "G", "I", "K", "L", "N", "R", "T", "U", "Y" >>
LowerLetters == << "a", "b", "c", "d", "e", "g", "i", "k", "l", "n", "r", "t", "u", "y" >>

\* toLowerCase that leaves every character as it is.
ToLowerChar_Keep(c) == c

ToLowerChar(c) ==
    IF \E i \in DOMAIN UpperLetters : UpperLetters[i] = c
    THEN LowerLetters[CHOOSE i \in DOMAIN UpperLetters : UpperLetters[i] = c]
    ELSE c

\* String.prototype.toLowerCase
toLowerCase(text) == [i \in DOMAIN text |-> ToLowerChar(text[i])]

\* String.prototype.includes
includes(text, part) ==
    \E i \in 0..(Len(text) - Len(part)) :
        SubSeq(text, i + 1, i + Len(part)) = part

excludeActions ==
    {<< "d", "e", "t", "a", "i", "l" >>,
     << "c", "e", "t", "a", "k", " ", "u", "n", "d", "a", "n", "g", "a", "n" >>,
     << "c", "e", "t", "a", "k", " ", "k", "a", "r", "t", "u", " ", "u", "j", "i", "a", "n" >>}

RECURSIVE KeepLinks(_)
\* The .each loop over the anchors of the sixth cell.
KeepLinks(links) ==
    IF links = << >> THEN << >>
    ELSE LET text == trim(Head(links).text)
             lowerText == toLowerCase(text)
         IN (IF ~\E ex \in excludeActions : includes(lowerText, ex)
             THEN << [text |-> text, link |-> Head(links).href] >>
             ELSE << >>) \o KeepLinks(Tail(links))

RECURSIVE KeepRows(_)
\* The .each loop over the rows of the table.
KeepRows(rows) ==
    IF rows = << >> THEN << >>
    ELSE LET row == Head(rows)
             kode == trim(row.kode)
         IN (IF row.ncells >= 6 /\ kode # << >> /\ kode # KODE
             THEN << [kode |-> kode, actions |-> KeepLinks(row.links)] >>
             ELSE << >>) \o KeepRows(Tail(rows))

parseExamTable(html) == IF ~html.hasTable THEN << >> ELSE KeepRows(html.rows)

\* The null check left out.
HasCookie_Unchecked(c) == TRUE

\* if (!cookie) return null: fetchExamListForUser goes on with a cookie only.
HasCookie(c) == c # 0

\* A retry after every failed fetch.
MayRetry_Always(n) == TRUE

\* fetchExamListForUser re-logs in and fetches again after a failed fetch of
\* the fresh attempt only; the failed fetch of the retried attempt returns null.
MayRetry(n) == n = 1

\* ------------------------------------------------------- the server's tokens
Range(f) == {f[x] : x \in DOMAIN f}

\* The tokens the program still holds: in the store, in a call's cookie or in
\* a request it sent.
HeldTokens ==
    {userSessions[k].cookie : k \in DOMAIN userSessions}
    \cup {cookie[p] : p \in Procs}
    \cup UNION {Range(sentLog[p]) : p \in Procs}

TokenPool == 1..12

\* A login hands out a token the program does not hold (the least such one:
\* the program only ever compares tokens it holds).
FreshToken ==
    LET free == TokenPool \ HeldTokens
    IN CHOOSE t \in free : \A u \in free : t <= u

\* ================================================================ scraper.js
\* --------------------------------------------------------- program constants
MAX_OFFSET == 260          \* the last listing offset
PAGE_STEP == 5             \* the listing offsets are 0, 5, ..., MAX_OFFSET

\* ------------------------------------------------------------------ bounds
MaxAnchors == 2    \* anchors on a listing page handed to parseArticles
MaxArticles == 2   \* articles in a list handed to getNewArticles

\* ------------------------------------------------------------ listing pages
\* An article id is the string of digits the pattern (\d+) captures: "7",
\* "07" and "12".
Ids == {<< 7 >>, << 0, 7 >>, << 1, 2 >>}

RECURSIVE parseInt(_)
\* parseInt of a string of decimal digits.
parseInt(digits) ==
    IF digits = << >> THEN 0
    ELSE 10 * parseInt(SubSeq(digits, 1, Len(digits) - 1)) + digits[Len(digits)]

\* The visible text of an anchor, a string of characters: blank, "a", " b".
Texts == {<< " " >>, << "a" >>, << " ", "b" >>}

\* An href that contains "/page/news_detail/": absolute (it starts with
\* "http") or not, the digits that follow, and whether a "/" follows them.
Hrefs ==
    [abs : BOOLEAN, id : Ids, slash : {TRUE}]
    \cup {[abs |-> FALSE, id |-> << 7 >>, slash |-> FALSE]}

\* The anchors the selector a[href*="/page/news_detail/"] finds.
Anchors == [href : Hrefs, text : Texts]

\* A listing page: its anchors in document order.
ListingPages == UNION {[1..n -> Anchors] : n \in 0..MaxAnchors}

\* href.match(/\/page\/news_detail\/(\d+)\//): the captured id in a
\* one-element tuple, or the empty tuple for null.
hrefMatch(href) == IF href.slash THEN << href.id >> ELSE << >>

\* href.startsWith('http') ? href : `https://www.aktuaris.or.id${href}`
Url(href) == [prefixed |-> ~href.abs, href |-> href]

\* ---------------------------------------------- a Map keyed by article id
\* The Map is the sequence of its values in insertion order.
HasId(articles, id) == \E i \in DOMAIN articles : articles[i].id = id

\* Map.set: a present key keeps its place and takes the new value.
MapPut(articles, e) ==
    IF HasId(articles, e.id)
    THEN [i \in DOMAIN articles |-> IF articles[i].id = e.id THEN e ELSE articles[i]]
    ELSE Append(articles, e)

\* The later entry replaces the earlier one.
SetIfAbsent_Overwrite(articles, e) ==
    IF HasId(articles, e.id)
    THEN [i \in DOMAIN articles |-> IF articles[i].id = e.id THEN e ELSE articles[i]]
    ELSE Append(articles, e)

\* if (!articles.has(id)) articles.set(id, ...)
SetIfAbsent(articles, e) ==
    IF HasId(articles, e.id) THEN articles ELSE Append(articles, e)

RECURSIVE InsertDesc(_, _)
InsertDesc(sorted, e) ==
    IF sorted = << >> THEN << e >>
    ELSE IF parseInt(Head(sorted).id) >= parseInt(e.id)
         THEN << Head(sorted) >> \o InsertDesc(Tail(sorted), e)
         ELSE << e >> \o sorted

RECURSIVE SortDesc(_)
\* Array.prototype.sort((a, b) => parseInt(b.id) - parseInt(a.id)): a stable
\* sort, so entries of equal numeric value keep their order.
SortDesc(s) ==
    IF s = << >> THEN << >>
    ELSE InsertDesc(SortDesc(SubSeq(s, 1, Len(s) - 1)), s[Len(s)])

RECURSIVE Collect(_, _)
\* The .each loop of parseArticles over the anchors.
Collect(anchors, articles) ==
    IF anchors = << >> THEN articles
    ELSE LET element == Head(anchors)
             text == trim(element.text)
             match == hrefMatch(element.href)
         IN Collect(Tail(anchors),
                    IF match # << >> /\ text # << >>
                    THEN SetIfAbsent(articles,
                                     [id |-> match[1], title |-> text,
                                      url |-> Url(element.href)])
                    ELSE articles)

parseArticles(html) == SortDesc(Collect(html, << >>))

RECURSIVE MergePage(_, _)
\* articles.forEach(article => { if (!allArticles.has(article.id)) ... })
MergePage(all, articles) ==
    IF articles = << >> THEN all
    ELSE MergePage(SetIfAbsent(all, Head(articles)), Tail(articles))

RECURSIVE PutPage(_, _)
\* articles.forEach(article => allArticles.set(article.id, article))
PutPage(all, articles) ==
    IF articles = << >> THEN all
    ELSE PutPage(MapPut(all, Head(articles)), Tail(articles))

\* The pages the listing server answers a scrape with.
ScrapePages ==
    LET A(id, text) == [href |-> [abs |-> FALSE, id |-> id, slash |-> TRUE],
                        text |-> text]
    IN {<< >>,
        << A(<< 7 >>, << "a" >>), A(<< 1, 2 >>, << "a" >>) >>,
        << A(<< 7 >>, << " ", "b" >>) >>,
        << A(<< 1, 2 >>, << " " >>), A(<< 0, 7 >>, << "a" >>) >>}

\* What fetchNewsPage comes back with: response.data, or the error it
\* rethrows (a failure of the request, or its 30 s timeout).
ScrapeAnswers ==
    {[ok |-> TRUE, html |-> h] : h \in ScrapePages}
    \cup {[ok |-> FALSE, html |-> << >>]}

NoResult == [kind |-> "none", val |-> << >>]
Returned(list) == [kind |-> "returned", val |-> list]
Thrown == [kind |-> "thrown", val |-> << >>]

\* ------------------------------------------------ the seen-articles storage
\* The entries of an article list.
Entries ==
    {[id |-> i, title |-> t, url |-> Url([abs |-> FALSE, id |-> i, slash |-> TRUE])] :
        i \in Ids, t \in {<< "a" >>, << "b" >>}}

ArticleLists == UNION {[1..n -> Entries] : n \in 0..MaxArticles}

IdsOf(articles) == {articles[i].id : i \in DOMAIN articles}

\* data/seen_articles.json: missing, not parsable, or holding articleIds.
NoFile == [state |-> "absent", ids |-> {}]
BadFile == [state |-> "corrupt", ids |-> {}]
SeenFile(ids) == [state |-> "valid", ids |-> ids]
SeenFiles == {NoFile, BadFile} \cup {SeenFile(s) : s \in SUBSET Ids}

\* loadSeenArticles: the ids of the file, an empty Set when the file is
\* missing or JSON.parse throws.
loadSeenArticles(file) == IF file.state = "valid" THEN file.ids ELSE {}

\* How fs.writeFileSync ends: it writes the file, it throws and leaves the
\* file as it was, or it throws after it truncated the file.
WriteOutcomes == {"written", "failed", "partial"}

\* saveSeenArticles: the error of writeFileSync is logged and swallowed.
saveSeenArticles(file, articleIds, w) ==
    CASE w = "written" -> SeenFile(articleIds)
      [] w = "failed" -> file
      [] w = "partial" -> BadFile

\* The test of the filter the other way round.
getNewArticles_Seen(currentArticles, seenIds) ==
    SelectSeq(currentArticles, LAMBDA article : article.id \in seenIds)

\* currentArticles.filter(article => !seenIds.has(article.id))
getNewArticles(currentArticles, seenIds) ==
    SelectSeq(currentArticles, LAMBDA article : article.id \notin seenIds)

\* The filter adds what it passes over to the Set.
SeenAfterFilter_Marking(currentArticles, seenIds) == seenIds \cup IdsOf(currentArticles)

\* The Set after getNewArticles ran: filter and has leave it as it is.
SeenAfterFilter(currentArticles, seenIds) == seenIds

\* The Set after articles.forEach(article => seenIds.add(article.id)).
SeenAfterAdd(articles, seenIds) == seenIds \cup IdsOf(articles)

\* ------------------------------------------------------------------- Init
SessionInit ==
    /\ userSessions = << >>
    /\ now = 0
    /\ started = 0
    /\ pc = [p \in Procs |-> "idle"]
    /\ attempt = [p \in Procs |-> 1]
    /\ op = [p \in Procs |-> "none"]
    /\ userId = [p \in Procs |-> [kind |-> "num", v |-> 1]]
    /\ cookie = [p \in Procs |-> 0]
    /\ result = [p \in Procs |-> Null]
    /\ logins = [p \in Procs |-> 0]
    /\ fetches = [p \in Procs |-> 0]
    /\ loginLog = [p \in Procs |-> << >>]
    /\ fetchLog = [p \in Procs |-> << >>]
    /\ sentLog = [p \in Procs |-> << >>]
    /\ clears = [p \in Procs |-> 0]
    /\ cached = [p \in Procs |-> FALSE]
    /\ issuedAt = << >>
    /\ silent = [p \in Procs |-> FALSE]
    /\ raised = [p \in Procs |-> FALSE]

\* No scrape has started.
ScrapeInit ==
    /\ scrapePc = "idle"
    /\ allPages = FALSE
    /\ offset = 0
    /\ allArticles = << >>
    /\ scrapeResult = NoResult
    /\ page = << >>
    /\ parsed = << >>
    /\ pageFetches = 0
    /\ pageFailures = 0
    /\ firsts = << >>

NoMark == [done |-> FALSE, articles |-> << >>, seenIds |-> {}]

\* No seen-articles file yet, and the Set loaded from it.
SeenInit ==
    /\ currentList = << >>
    /\ seenFile = NoFile
    /\ seenSet = loadSeenArticles(seenFile)
    /\ newLog = << >>
    /\ marked = NoMark

\* The users a preference is stored for, who are also the chats the bot
\* talks to: in a private chat the chat id is the user id.
Chats == {1, 2}

\* The handlers that can be between two awaits at the same time.
Handlers == {1, 2}

\* One entry of data/user_preferences.json; a preference never set reads as
\* undefined, here FALSE and 0.
NoPrefs ==
    [reminderEnabled |-> FALSE, reminderInterval |-> 0, paiLoginStep |-> "none",
     paiTempEmail |-> << >>, paiEmail |-> << >>, paiPassword |-> << >>]

\* A handler that has not been started.
NoCheck ==
    [pc |-> "idle", kind |-> "none", chatId |-> 0, seenIds |-> {},
     shouldScrapeAll |-> FALSE, articles |-> << >>, newArticles |-> << >>,
     queue |-> << >>, sends |-> 0, sentOk |-> 0, marksDone |-> FALSE,
     caught |-> FALSE, raised |-> FALSE, tick |-> 0, notified |-> {}]

\* No check has started and no preference is stored.
CheckInit ==
    /\ checks = [h \in Handlers |-> NoCheck]
    /\ phase = "boot"
    /\ checksStarted = 0
    /\ delivered = [c \in Chats |-> [i \in Ids |-> 0]]
    /\ writeFailed = FALSE
    /\ prefs = [c \in Chats |-> NoPrefs]

\* The cron job has not ticked, nothing was called on its own.
START_MS == 6000000

NoTick == [ran |-> FALSE, calls |-> 0]

SchedInit ==
    /\ tickNow = START_MS
    /\ userLastCheck = << >>
    /\ tickLog = NoTick

CallInit ==
    /\ called = "none"
    /\ given = << >>
    /\ returned = << >>

\* No message was handled, nobody is allowed and nobody has asked.
NoMessage == [from |-> 0, kind |-> "none", target |-> 0, calls |-> "none"]

\* A message of user u handled by the handler of that kind, which went on
\* to call an asynchronous function or none.
Message(u, kind, target, calls) ==
    [from |-> u, kind |-> kind, target |-> target, calls |-> calls]

\* The credentials of a call that was given none.
NoCredentials == [email |-> << >>, password |-> << >>]

AccessInit ==
    /\ allowedUsers = {}
    /\ accessRequests = << >>
    /\ botLog = NoMessage
    /\ deleting = [c \in Chats |-> << >>]
    /\ args = [p \in Procs |-> NoCredentials]
    /\ loginOf = << >>

Init ==
    /\ SessionInit /\ ScrapeInit /\ SeenInit /\ CheckInit /\ SchedInit /\ CallInit
    /\ AccessInit

\* ------------------------------------------------------ the axios timeouts
\* The timeout option of the axios call each function makes, in ms; axios
\* takes 0, its default, for "never time out".
AxiosTimeout(call) == IF call = "fetchNewsPage" THEN 30000 ELSE 0

\* The request of call p gets an answer: the server's, or, from a server
\* that stays silent, the timeout error of a call that carries a timeout.
Responds(p, call, isTransportError) ==
    \/ ~silent[p]
    \/ AxiosTimeout(call) > 0 /\ isTransportError

\* --------------------------------------------------------------- the clock
Tick(t) ==
    /\ t > now
    /\ now' = t
    /\ UNCHANGED << userSessions, started, pc, attempt, op, userId,
                    cookie, result, logins, fetches, loginLog, fetchLog,
                    sentLog, clears, cached, issuedAt >>
    /\ UNCHANGED << silent, raised, scrapeVars, seenVars, checkVars, schedVars, callVars, accessVars,
                    credVars >>

\* ------------------------------------------------ the start of an operation
CanStart(p) == pc[p] \in {"idle", "done"} /\ started < MaxOps

\* The email and password stored for a user, which the /examstatus handler
\* passes on.
StoredCredentials(file, uid) ==
    [email |-> file[uid.v].paiEmail, password |-> file[uid.v].paiPassword]

\* Operation f is called with a user id, an email and a password, and calls
\* getSession: it returns the cached cookie of a valid session, else it
\* posts the login form and waits.
Calls(p, f, uid, credentials) ==
    /\ CanStart(p)
    /\ started' = started + 1
    /\ op' = [op EXCEPT ![p] = f]
    /\ userId' = [userId EXCEPT ![p] = uid]
    /\ attempt' = [attempt EXCEPT ![p] = 1]
    /\ result' = [result EXCEPT ![p] = Null]
    /\ loginLog' = [loginLog EXCEPT ![p] = << >>]
    /\ fetchLog' = [fetchLog EXCEPT ![p] = << >>]
    /\ clears' = [clears EXCEPT ![p] = 0]
    /\ cached' = [cached EXCEPT ![p] = isSessionValid(userSessions, uid, now)]
    /\ IF isSessionValid(userSessions, uid, now)
       THEN /\ cookie' = [cookie EXCEPT ![p] = userSessions[String(uid)].cookie]
            /\ logins' = [logins EXCEPT ![p] = 0]
            /\ IF f = "getSession"
               THEN /\ pc' = [pc EXCEPT ![p] = "done"]
                    /\ fetches' = [fetches EXCEPT ![p] = 0]
                    /\ sentLog' = [sentLog EXCEPT ![p] = << >>]
               ELSE /\ pc' = [pc EXCEPT ![p] = "fetch"]
                    /\ fetches' = [fetches EXCEPT ![p] = 1]
                    /\ sentLog' = [sentLog EXCEPT ![p] =
                                      << userSessions[String(uid)].cookie >>]
       ELSE /\ cookie' = [cookie EXCEPT ![p] = 0]
            /\ logins' = [logins EXCEPT ![p] = 1]
            /\ fetches' = [fetches EXCEPT ![p] = 0]
            /\ sentLog' = [sentLog EXCEPT ![p] = << >>]
            /\ pc' = [pc EXCEPT ![p] = "login"]
    /\ UNCHANGED << userSessions, now, issuedAt >>
    /\ raised' = [raised EXCEPT ![p] = FALSE]
    /\ args' = [args EXCEPT ![p] = credentials]
    /\ UNCHANGED loginOf

\* An operation called with the credentials stored for the user.
Begin(p, f, uid) ==
    /\ Calls(p, f, uid, StoredCredentials(prefs, uid))
    /\ UNCHANGED << silent, scrapeVars, seenVars, checkVars, schedVars, callVars,
                    accessVars >>

StartFetchExamList(p, uid) == Begin(p, "fetchExamListForUser", uid)

StartGetSession(p, uid) == Begin(p, "getSession", uid)

\* clearSession called on its own (it is exported): one synchronous step.
CallClearSession(p, uid) ==
    /\ CanStart(p)
    /\ started' = started + 1
    /\ op' = [op EXCEPT ![p] = "clearSession"]
    /\ userId' = [userId EXCEPT ![p] = uid]
    /\ attempt' = [attempt EXCEPT ![p] = 1]
    /\ userSessions' = clearSession(userSessions, uid)
    /\ issuedAt' = MapDelete(issuedAt, String(uid))
    /\ pc' = [pc EXCEPT ![p] = "done"]
    /\ cookie' = [cookie EXCEPT ![p] = 0]
    /\ result' = [result EXCEPT ![p] = Null]
    /\ logins' = [logins EXCEPT ![p] = 0]
    /\ fetches' = [fetches EXCEPT ![p] = 0]
    /\ loginLog' = [loginLog EXCEPT ![p] = << >>]
    /\ fetchLog' = [fetchLog EXCEPT ![p] = << >>]
    /\ sentLog' = [sentLog EXCEPT ![p] = << >>]
    /\ clears' = [clears EXCEPT ![p] = 1]
    /\ cached' = [cached EXCEPT ![p] = FALSE]
    /\ UNCHANGED << now >>
    /\ raised' = [raised EXCEPT ![p] = FALSE]
    /\ UNCHANGED << silent, scrapeVars, seenVars, checkVars, schedVars, callVars, accessVars,
                    credVars >>


\* ------------------------------------------------- the login POST answered
\* login returns to getSession, which stores a session and returns its cookie
\* or returns null; fetchExamListForUser returns null on null and otherwise
\* sends the GET of the exam page with that cookie.
LoginAnswered(p, a) ==
    /\ pc[p] = "login"
    /\ Responds(p, "login", a.kind = "errNoResp")
    /\ LET session == login(a, now)
           got == session # NoSession
       IN
       /\ userSessions' = StoreAfterLogin(userSessions, userId[p], session)
       /\ issuedAt' = IF got THEN MapSet(issuedAt, SessionKey(userId[p]), now)
                             ELSE issuedAt
       /\ loginOf' = IF got THEN MapSet(loginOf, session.cookie, args[p])
                            ELSE loginOf
       /\ cookie' = [cookie EXCEPT ![p] = session.cookie]
       /\ loginLog' = [loginLog EXCEPT ![p] = Append(@, LoginClass(a, now))]
       /\ IF HasCookie(session.cookie) /\ op[p] = "fetchExamListForUser"
          THEN /\ pc' = [pc EXCEPT ![p] = "fetch"]
               /\ fetches' = [fetches EXCEPT ![p] = @ + 1]
               /\ sentLog' = [sentLog EXCEPT ![p] = Append(@, session.cookie)]
          ELSE /\ pc' = [pc EXCEPT ![p] = "done"]
               /\ UNCHANGED << fetches, sentLog >>
    /\ UNCHANGED << now, started, attempt, op, userId, result, logins,
                    fetchLog, clears, cached >>
    /\ raised' = [raised EXCEPT ![p] = @ \/ loginThrows(a)]
    /\ UNCHANGED args
    /\ UNCHANGED << silent, scrapeVars, seenVars, checkVars, schedVars, callVars,
                    accessVars >>

\* ---------------------------------------------- the exam page GET answered
\* fetchExamPage returns to fetchExamListForUser: a truthy page is parsed and
\* returned; otherwise the fresh attempt clears the session, calls getSession
\* again and the retried attempt returns null.
FetchAnswered(p, a) ==
    /\ pc[p] = "fetch"
    /\ Responds(p, "fetchExamPage", a.kind = "error")
    /\ fetchLog' = [fetchLog EXCEPT ![p] = Append(@, FetchClass(a))]
    /\ LET html == fetchExamPage(a) IN
       IF ~Falsy(html)
       THEN /\ result' = [result EXCEPT ![p] = Val(parseExamTable(html))]
            /\ pc' = [pc EXCEPT ![p] = "done"]
            /\ UNCHANGED << userSessions, issuedAt, attempt, cookie, logins,
                            fetches, sentLog, clears >>
       ELSE IF MayRetry(attempt[p])
       THEN LET cleared == clearSession(userSessions, userId[p]) IN
            /\ userSessions' = cleared
            /\ issuedAt' = MapDelete(issuedAt, String(userId[p]))
            /\ clears' = [clears EXCEPT ![p] = @ + 1]
            /\ attempt' = [attempt EXCEPT ![p] = @ + 1]
            /\ result' = result
            /\ IF isSessionValid(cleared, userId[p], now)
               THEN /\ cookie' = [cookie EXCEPT ![p] = cleared[String(userId[p])].cookie]
                    /\ pc' = [pc EXCEPT ![p] = "fetch"]
                    /\ fetches' = [fetches EXCEPT ![p] = @ + 1]
                    /\ sentLog' = [sentLog EXCEPT ![p] =
                                      Append(@, cleared[String(userId[p])].cookie)]
                    /\ logins' = logins
               ELSE /\ cookie' = cookie
                    /\ pc' = [pc EXCEPT ![p] = "login"]
                    /\ logins' = [logins EXCEPT ![p] = @ + 1]
                    /\ UNCHANGED << fetches, sentLog >>
       ELSE /\ result' = [result EXCEPT ![p] = Null]
            /\ pc' = [pc EXCEPT ![p] = "done"]
            /\ UNCHANGED << userSessions, issuedAt, attempt, cookie, logins,
                            fetches, sentLog, clears >>
    /\ UNCHANGED << now, started, op, userId, loginLog, cached >>
    /\ raised' = [raised EXCEPT ![p] = @ \/ fetchExamPageThrows(a)]
    /\ UNCHANGED << silent, scrapeVars, seenVars, checkVars, schedVars, callVars, accessVars,
                    credVars >>

\* ------------------------------------------------------ fetchExamResultPdf
\* The characters [\d.]+ can match, and the texts of a score.
DigitChars == {"0", "1", "2", "3", "4", "5", "6", "7", "8", "9"}

DigitValue(c) ==
    CASE c = "0" -> 0 [] c = "1" -> 1 [] c = "2" -> 2 [] c = "3" -> 3
      [] c = "4" -> 4 [] c = "5" -> 5 [] c = "6" -> 6 [] c = "7" -> 7
      [] c = "8" -> 8 [] c = "9" -> 9

ScoreTexts ==
    {<< "7", "0", ".", "0", "0" >>, << "6", "9", ".", "9", "9" >>,
     << "7", "0", ".", "5" >>, << "." >>}

RECURSIVE DigitsPrefix(_)
\* The longest prefix of decimal digits.
DigitsPrefix(text) ==
    IF text = << >> \/ Head(text) \notin DigitChars THEN << >>
    ELSE << Head(text) >> \o DigitsPrefix(Tail(text))

RECURSIVE Decimal(_)
Decimal(digits) ==
    IF digits = << >> THEN 0
    ELSE 10 * Decimal(SubSeq(digits, 1, Len(digits) - 1))
         + DigitValue(digits[Len(digits)])

\* A number in hundredths, or NaN.
NaN == [nan |-> TRUE, v100 |-> 0]

\* parseFloat on a text of digits and dots: the digits before the first dot
\* and those between it and the next one; NaN when there is no digit. The
\* value is kept in hundredths, further decimals cut off.
parseFloat(text) ==
    LET int == DigitsPrefix(text)
        rest == SubSeq(text, Len(int) + 1, Len(text))
        frac == IF rest # << >> /\ Head(rest) = "."
                THEN DigitsPrefix(Tail(rest)) ELSE << >>
        two == SubSeq(frac \o << "0", "0" >>, 1, 2)
    IN IF int = << >> /\ frac = << >> THEN NaN
       ELSE [nan |-> FALSE, v100 |-> 100 * Decimal(int) + Decimal(two)]

\* The comparison the other way round at the boundary.
Passed_Strict(score) == ~score.nan /\ score.v100 > 7000

\* result.score >= 70; a comparison with NaN is false.
Passed(score) == ~score.nan /\ score.v100 >= 7000

\* Extracted text of a result document: whether the subject line matches and
\* the text its third group, the score, matched.
PdfTexts ==
    {[scoreMatch |-> FALSE, scoreText |-> << >>]}
    \cup {[scoreMatch |-> TRUE, scoreText |-> t] : t \in ScoreTexts}

\* Answers to the document GET: a document, the login page reached after a
\* redirect (not a document: pdfParse rejects it), or an axios error.
PdfAnswers ==
    { [kind |-> "pdf", text |-> t] : t \in PdfTexts }
    \cup { [kind |-> k, text |-> t] : k \in {"loginRedirect", "error"},
                                      t \in {x \in PdfTexts : ~x.scoreMatch} }

NoScore == [isNull |-> TRUE, val |-> 0]

\* The value fetchExamResultPdf returns for an answer.
examResult(a) ==
    IF a.kind # "pdf" THEN Null
    ELSE IF a.text.scoreMatch
         THEN LET score == parseFloat(a.text.scoreText)
              IN Val([rawText |-> a.text,
                      score |-> [isNull |-> FALSE, val |-> score],
                      passed |-> [isNull |-> FALSE, val |-> Passed(score)]])
         ELSE Val([rawText |-> a.text, score |-> NoScore, passed |-> NoScore])

\* Whether fetchExamResultPdf throws to its caller: axios.get rejects, or
\* pdfParse rejects what is not a document, inside the try.
fetchExamResultPdfThrows(a) == Catch(a.kind # "pdf")

\* fetchExamResultPdf(pdfUrl, cookie) up to its GET; the caller passes the cookie.
StartFetchPdf(p, c) ==
    /\ CanStart(p)
    /\ started' = started + 1
    /\ op' = [op EXCEPT ![p] = "fetchExamResultPdf"]
    /\ userId' = userId
    /\ attempt' = [attempt EXCEPT ![p] = 1]
    /\ cookie' = [cookie EXCEPT ![p] = c]
    /\ result' = [result EXCEPT ![p] = Null]
    /\ logins' = [logins EXCEPT ![p] = 0]
    /\ fetches' = [fetches EXCEPT ![p] = 1]
    /\ loginLog' = [loginLog EXCEPT ![p] = << >>]
    /\ fetchLog' = [fetchLog EXCEPT ![p] = << >>]
    /\ sentLog' = [sentLog EXCEPT ![p] = << c >>]
    /\ clears' = [clears EXCEPT ![p] = 0]
    /\ cached' = [cached EXCEPT ![p] = FALSE]
    /\ pc' = [pc EXCEPT ![p] = "pdf"]
    /\ UNCHANGED << userSessions, now, issuedAt >>
    /\ raised' = [raised EXCEPT ![p] = FALSE]
    /\ UNCHANGED << silent, scrapeVars, seenVars, checkVars, schedVars, callVars, accessVars,
                    credVars >>

\* The document GET answered: the result is returned, whatever the answer.
PdfAnswered(p, a) ==
    /\ pc[p] = "pdf"
    /\ Responds(p, "fetchExamResultPdf", a.kind = "error")
    /\ fetchLog' = [fetchLog EXCEPT ![p] = Append(@, a.kind)]
    /\ result' = [result EXCEPT ![p] = examResult(a)]
    /\ pc' = [pc EXCEPT ![p] = "done"]
    /\ UNCHANGED << userSessions, now, started, attempt, op,
                    userId, cookie, logins, fetches, loginLog, sentLog, clears,
                    cached, issuedAt >>
    /\ raised' = [raised EXCEPT ![p] = @ \/ fetchExamResultPdfThrows(a)]
    /\ UNCHANGED << silent, scrapeVars, seenVars, checkVars, schedVars, callVars, accessVars,
                    credVars >>

\* ------------------------------------------------------------------- Next
Next ==
    \/ \E t \in Instants : Tick(t)
    \/ \E p \in Procs, uid \in UserIds : StartFetchExamList(p, uid)
    \/ \E p \in Procs, uid \in UserIds : StartGetSession(p, uid)
    \/ \E p \in Procs, uid \in UserIds : CallClearSession(p, uid)
    \/ \E p \in Procs, a \in LoginAnswers(FreshToken) : LoginAnswered(p, a)
    \/ \E p \in Procs, a \in FetchAnswers : FetchAnswered(p, a)

\* The session operations together with document fetches.
NextPdf ==
    \/ Next
    \/ \E p \in Procs, c \in HeldTokens : StartFetchPdf(p, c)
    \/ \E p \in Procs, a \in PdfAnswers : PdfAnswered(p, a)

Spec == Init /\ [][Next]_vars

SpecPdf == Init /\ [][NextPdf]_vars

\* ------------------------------------------------------ a silent server
\* The server accepts the connection of call p's request and never answers.
ServerSilent(p) ==
    /\ pc[p] \in {"login", "fetch", "pdf"}
    /\ ~silent[p]
    /\ silent' = [silent EXCEPT ![p] = TRUE]
    /\ UNCHANGED << sessionVars, raised, scrapeVars, seenVars, checkVars, schedVars, callVars, accessVars,
                    credVars >>

NextHang ==
    \/ NextPdf
    \/ \E p \in Procs : ServerSilent(p)

SpecHang == Init /\ [][NextHang]_vars

\* ================================================== scraper.js: the scrape
\* An anchor that contributes to id: its href matches with that id and its
\* trimmed text is not empty.
ValidAt(h, i, id) == hrefMatch(h[i].href) = << id >> /\ trim(h[i].text) # << >>

PageIds(h) == {id \in Ids : \E i \in DOMAIN h : ValidAt(h, i, id)}

\* The first anchor of the page that contributes to id.
FirstValid(h, id) ==
    h[CHOOSE i \in DOMAIN h :
          ValidAt(h, i, id) /\ \A j \in 1..(i - 1) : ~ValidAt(h, j, id)]

TitleUrl(anchor) == [title |-> trim(anchor.text), url |-> Url(anchor.href)]

\* firsts after one more page was fetched.
FirstsAfter(f, h) ==
    [id \in (DOMAIN f) \cup PageIds(h) |->
        IF id \in DOMAIN f THEN f[id] ELSE TitleUrl(FirstValid(h, id))]

\* A failed request comes back as an empty page.
fetchNewsPage_Swallow(answer) ==
    IF answer.ok THEN [threw |-> FALSE, data |-> answer.html]
    ELSE [threw |-> FALSE, data |-> << >>]

\* fetchNewsPage: response.data, or the error rethrown from its catch.
fetchNewsPage(answer) ==
    IF answer.ok THEN [threw |-> FALSE, data |-> answer.html]
    ELSE [threw |-> TRUE, data |-> << >>]

\* The loop steps over an offset.
NextOffset_Skip(o) == o + 2 * PAGE_STEP

\* offset += PAGE_STEP
NextOffset(o) == o + PAGE_STEP

\* The Map is replaced by the articles of the page.
MergeInto_Replace(all, articles) == articles

\* The forEach of the full scrape over the articles of one page.
MergeInto(all, articles) == MergePage(all, articles)

\* parseArticles called on a page of its own.
CallParseArticles(html) ==
    /\ scrapePc = "idle"
    /\ page' = html
    /\ parsed' = parseArticles(html)
    /\ scrapePc' = "parsed"
    /\ UNCHANGED << allPages, offset, allArticles, scrapeResult, pageFetches,
                    pageFailures, firsts >>
    /\ UNCHANGED << sessionVars, silent, raised, seenVars, checkVars, schedVars, callVars, accessVars,
                    credVars >>

\* scrapeArticles(all) up to its first fetchNewsPage: both branches start
\* with the page at offset 0.
StartScrape(all) ==
    /\ scrapePc = "idle"
    /\ allPages' = all
    /\ offset' = 0
    /\ allArticles' = << >>
    /\ scrapeResult' = NoResult
    /\ pageFetches' = 1
    /\ pageFailures' = 0
    /\ firsts' = << >>
    /\ scrapePc' = "fetch"
    /\ UNCHANGED << page, parsed >>
    /\ UNCHANGED << sessionVars, silent, raised, seenVars, checkVars, schedVars, callVars, accessVars,
                    credVars >>

\* The loop test of the full scrape at offset o with the Map all: the next
\* fetchNewsPage is issued, or the loop is left and the sorted list returned.
LoopAt(o, all) ==
    /\ offset' = o
    /\ allArticles' = all
    /\ IF o <= MAX_OFFSET
       THEN /\ pageFetches' = pageFetches + 1
            /\ scrapePc' = "fetch"
            /\ scrapeResult' = scrapeResult
       ELSE /\ pageFetches' = pageFetches
            /\ scrapePc' = "done"
            /\ scrapeResult' = Returned(SortDesc(all))

\* fetchNewsPage came back.  Full scrape: the page is parsed and merged and
\* the delay starts, unless this was the last offset; a failure is logged in
\* the catch and the loop goes on.  Incremental scrape: the page is parsed and
\* the list returned; a failure is thrown to the caller.
PageAnswered(a) ==
    /\ scrapePc = "fetch"
    /\ LET r == fetchNewsPage(a) IN
       IF allPages
       THEN IF ~r.threw
            THEN LET all == MergeInto(allArticles, parseArticles(r.data)) IN
                 /\ firsts' = FirstsAfter(firsts, r.data)
                 /\ IF offset < MAX_OFFSET
                    THEN /\ allArticles' = all
                         /\ scrapePc' = "delay"
                         /\ UNCHANGED << offset, pageFetches, scrapeResult >>
                    ELSE LoopAt(NextOffset(offset), all)
            ELSE /\ LoopAt(NextOffset(offset), allArticles)
                 /\ UNCHANGED firsts
       ELSE /\ scrapePc' = "done"
            /\ UNCHANGED << offset, pageFetches >>
            /\ IF ~r.threw
               THEN /\ allArticles' = PutPage(allArticles, parseArticles(r.data))
                    /\ scrapeResult' = Returned(SortDesc(allArticles'))
                    /\ firsts' = FirstsAfter(firsts, r.data)
               ELSE /\ scrapeResult' = Thrown
                    /\ UNCHANGED << allArticles, firsts >>
    /\ pageFailures' = IF a.ok THEN pageFailures ELSE pageFailures + 1
    /\ UNCHANGED << allPages, page, parsed >>
    /\ UNCHANGED << sessionVars, silent, raised, seenVars, checkVars, schedVars, callVars, accessVars,
                    credVars >>

\* await delay(500) is over: the loop goes on.
DelayElapsed ==
    /\ scrapePc = "delay"
    /\ LoopAt(NextOffset(offset), allArticles)
    /\ UNCHANGED << allPages, page, parsed, pageFailures, firsts >>
    /\ UNCHANGED << sessionVars, silent, raised, seenVars, checkVars, schedVars, callVars, accessVars,
                    credVars >>

NextScrape ==
    \/ \E html \in ListingPages : CallParseArticles(html)
    \/ \E all \in BOOLEAN : StartScrape(all)
    \/ \E a \in ScrapeAnswers : PageAnswered(a)
    \/ DelayElapsed

SpecScrape == Init /\ [][NextScrape]_vars

\* ======================================== scraper.js: the seen-articles set
\* A check has loaded the Set from the file and holds a list of articles.
InitSeen ==
    /\ SessionInit
    /\ ScrapeInit
    /\ currentList \in ArticleLists
    /\ seenFile \in SeenFiles
    /\ seenSet = loadSeenArticles(seenFile)
    /\ newLog = << >>
    /\ marked = NoMark
    /\ CheckInit
    /\ SchedInit
    /\ CallInit
    /\ AccessInit

\* getNewArticles(currentList, seenSet) is called and returns.
CallGetNewArticles ==
    /\ Len(newLog) < 2
    /\ newLog' = Append(newLog, getNewArticles(currentList, seenSet))
    /\ seenSet' = SeenAfterFilter(currentList, seenSet)
    /\ UNCHANGED << currentList, seenFile, marked >>
    /\ UNCHANGED << sessionVars, silent, raised, scrapeVars, checkVars, schedVars, callVars, accessVars,
                    credVars >>

\* markArticlesAsSeen(articles, seenSet) is called and returns: the ids are
\* added to the Set and saveSeenArticles writes the Set to the file.
CallMarkArticlesAsSeen(articles, w) ==
    /\ marked' = [done |-> TRUE, articles |-> articles, seenIds |-> seenSet]
    /\ seenSet' = SeenAfterAdd(articles, seenSet)
    /\ seenFile' = saveSeenArticles(seenFile, seenSet', w)
    /\ newLog' = << >>
    /\ UNCHANGED currentList
    /\ UNCHANGED << sessionVars, silent, raised, scrapeVars, checkVars, schedVars, callVars, accessVars,
                    credVars >>

NextSeen ==
    \/ CallGetNewArticles
    \/ \E articles \in {currentList, getNewArticles(currentList, seenSet)},
          w \in WriteOutcomes : CallMarkArticlesAsSeen(articles, w)

SpecSeen == InitSeen /\ [][NextSeen]_vars

\* ============================================ index.js and the bot: the checks
RECURSIVE Ascending(_)
\* Object.entries lists integer-like keys in ascending order.
Ascending(S) ==
    IF S = {} THEN << >>
    ELSE LET least == CHOOSE u \in S : \A v \in S : u <= v
         IN << least >> \o Ascending(S \ {least})

\* getAllUsersWithReminders: the users with reminderEnabled and a
\* reminderInterval, each with its interval in minutes.
getAllUsersWithReminders(userPrefs) ==
    LET users == Ascending({u \in DOMAIN userPrefs :
                              /\ userPrefs[u].reminderEnabled
                              /\ userPrefs[u].reminderInterval # 0})
    IN [i \in DOMAIN users |->
          [userId |-> users[i],
           intervalMinutes |-> userPrefs[users[i]].reminderInterval]]

\* The article lists scrapeArticles returns to a check.
SiteLists == {parseArticles(h) : h \in ScrapePages}

\* How the call of scrapeArticles in a check ends: with a list, or, when only
\* the first page is fetched, with the error of its request.
ScrapeReturns(all) ==
    {Returned(l) : l \in SiteLists} \cup (IF all THEN {} ELSE {Thrown})

\* The seen-articles files a check can find at its start.
StartFiles == {NoFile, SeenFile({}), SeenFile({<< 7 >>})}

\* The stored preferences a check can find.
StartPrefs ==
    [Chats -> {NoPrefs, [NoPrefs EXCEPT !.reminderEnabled = TRUE,
                                        !.reminderInterval = 10]}]

\* The process starts with some seen-articles file and some preferences.
InitCheck ==
    /\ SessionInit
    /\ ScrapeInit
    /\ currentList = << >>
    /\ seenFile \in StartFiles
    /\ seenSet = loadSeenArticles(seenFile)
    /\ newLog = << >>
    /\ marked = NoMark
    /\ checks = [h \in Handlers |-> NoCheck]
    /\ phase = "boot"
    /\ checksStarted = 0
    /\ delivered = [c \in Chats |-> [i \in Ids |-> 0]]
    /\ writeFailed = FALSE
    /\ prefs \in StartPrefs
    /\ SchedInit
    /\ CallInit
    /\ AccessInit

\* main calls checkForUpdates(true) once and awaits it before it schedules
\* the cron job.
PhaseAfter(c) ==
    IF c.kind # "startup" THEN phase
    ELSE IF c.pc = "done" THEN "running" ELSE "startup"

\* markArticlesAsSeen(articles, seenIds) in handler record c.
MarkedBy(c, articles) ==
    [c EXCEPT !.seenIds = SeenAfterAdd(articles, c.seenIds),
              !.marksDone = TRUE, !.pc = "done"]

\* The step of handler h ends in record c; when marks holds it has called
\* markArticlesAsSeen and writeFileSync ended as w.
CheckStep(h, c, marks, w) ==
    /\ marks \/ w = "written"
    /\ checks' = [checks EXCEPT ![h] = c]
    /\ phase' = PhaseAfter(c)
    /\ seenFile' = IF marks THEN saveSeenArticles(seenFile, c.seenIds, w)
                   ELSE seenFile
    /\ writeFailed' = (writeFailed \/ (marks /\ w # "written"))

\* checkForUpdates(isFirstRun) is called at time t and runs to its await of
\* scrapeArticles; mkdirOk tells whether ensureDataDir succeeds.
CheckStarts(h, isFirstRun, mkdirOk, t) ==
    /\ checksStarted < MaxChecks
    /\ checks[h].pc \in {"idle", "done"}
    /\ phase = (IF isFirstRun THEN "boot" ELSE "running")
    /\ checksStarted' = checksStarted + 1
    /\ LET seenIds == loadSeenArticles(seenFile)
           c == [NoCheck EXCEPT
                   !.kind = IF isFirstRun THEN "startup" ELSE "scheduled",
                   !.tick = t,
                   !.seenIds = seenIds,
                   !.shouldScrapeAll = (isFirstRun /\ seenIds = {})]
       IN IF mkdirOk
          THEN CheckStep(h, [c EXCEPT !.pc = "scrape"], FALSE, "written")
          ELSE CheckStep(h, [c EXCEPT !.pc = "done", !.seenIds = {},
                                      !.shouldScrapeAll = FALSE,
                                      !.caught = TRUE, !.raised = Catch(TRUE)],
                         FALSE, "written")
    /\ UNCHANGED << delivered, prefs >>
    /\ UNCHANGED << currentList, seenSet, newLog, marked >>

\* checkForUpdates called by main, or by a cron tick that is not followed
\* here.
StartCheckForUpdates(h, isFirstRun, mkdirOk) ==
    /\ CheckStarts(h, isFirstRun, mkdirOk, tickNow)
    /\ UNCHANGED << sessionVars, silent, raised, scrapeVars, schedVars, callVars, accessVars,
                    credVars >>

\* The /check command of chat chatId arrives and its handler runs to its
\* await of scrapeArticles.
StartCheckCommand(h, chatId) ==
    /\ checksStarted < MaxChecks
    /\ checks[h].pc \in {"idle", "done"}
    /\ checksStarted' = checksStarted + 1
    /\ CheckStep(h, [NoCheck EXCEPT !.kind = "command", !.chatId = chatId,
                                    !.pc = "scrape"],
                 FALSE, "written")
    /\ UNCHANGED << delivered, prefs >>
    /\ UNCHANGED << currentList, seenSet, newLog, marked >>
    /\ UNCHANGED << sessionVars, silent, raised, scrapeVars, schedVars, callVars, accessVars,
                    credVars >>

\* scrapeArticles comes back to checkForUpdates, which runs on to its first
\* await of sendNewArticlesNotification or to its end.
ScrapeReturnedToCheck(h, out, w) ==
    LET c == checks[h]
        newArticles == getNewArticles(out.val, c.seenIds)
        users == getAllUsersWithReminders(prefs)
        got == [c EXCEPT !.articles = out.val, !.newArticles = newArticles]
    IN /\ c.pc = "scrape"
       /\ c.kind \in {"startup", "scheduled"}
       /\ out \in ScrapeReturns(c.shouldScrapeAll)
       /\ IF out = Thrown
          THEN CheckStep(h, [c EXCEPT !.pc = "done", !.caught = TRUE,
                                      !.raised = Catch(TRUE)],
                         FALSE, w)
          ELSE IF newArticles = << >>
          THEN CheckStep(h, [got EXCEPT !.pc = "done"], FALSE, w)
          ELSE IF c.shouldScrapeAll \/ users = << >>
          THEN CheckStep(h, MarkedBy(got, newArticles), TRUE, w)
          ELSE CheckStep(h, [got EXCEPT !.pc = "send",
                                        !.queue = [i \in DOMAIN users |->
                                                     users[i].userId]],
                         FALSE, w)
       /\ UNCHANGED << checksStarted, delivered, prefs >>
       /\ UNCHANGED << currentList, seenSet, newLog, marked >>
       /\ UNCHANGED << sessionVars, silent, raised, scrapeVars, schedVars, callVars, accessVars,
                    credVars >>

\* scrapeArticles comes back to the /check handler, which loads the seen
\* set, computes the new articles and runs to its await of
\* sendNewArticlesNotification or to its end.
ScrapeReturnedToCommand(h, out) ==
    LET c == checks[h]
        seenIds == loadSeenArticles(seenFile)
        newArticles == getNewArticles(out.val, seenIds)
        got == [c EXCEPT !.articles = out.val, !.seenIds = seenIds,
                         !.newArticles = newArticles]
    IN /\ c.pc = "scrape"
       /\ c.kind = "command"
       /\ out \in ScrapeReturns(FALSE)
       /\ IF out = Thrown
          THEN CheckStep(h, [c EXCEPT !.pc = "done", !.caught = TRUE,
                                      !.raised = Catch(TRUE)],
                         FALSE, "written")
          ELSE IF newArticles = << >>
          THEN CheckStep(h, [got EXCEPT !.pc = "done"], FALSE, "written")
          ELSE CheckStep(h, [got EXCEPT !.pc = "send",
                                        !.queue = << c.chatId >>],
                         FALSE, "written")
       /\ UNCHANGED << checksStarted, delivered, prefs >>
       /\ UNCHANGED << currentList, seenSet, newLog, marked >>
       /\ UNCHANGED << sessionVars, silent, raised, scrapeVars, schedVars, callVars, accessVars,
                    credVars >>

\* The ids of a message that reached a chat are counted, up to two.
Delivered(d, chatId, articles) ==
    [d EXCEPT ![chatId] =
        [i \in Ids |-> IF i \in IdsOf(articles) /\ d[chatId][i] < 2
                       THEN d[chatId][i] + 1 ELSE d[chatId][i]]]

\* bot.sendMessage of sendNewArticlesNotification resolves (ok) or rejects,
\* and the handler runs on to its next await or to its end; a rejection
\* ends in the catch block around the send of checkForUpdates, or in the
\* catch block of the /check handler.
SendAnswered(h, ok, w) ==
    LET c == checks[h]
        sent == [c EXCEPT !.queue = Tail(c.queue),
                          !.sends = c.sends + 1,
                          !.sentOk = IF ok THEN c.sentOk + 1 ELSE c.sentOk,
                          !.notified = IF ok THEN c.notified \cup {Head(c.queue)}
                                       ELSE c.notified,
                          !.caught = c.caught \/ ~ok,
                          !.raised = c.raised \/ (~ok /\ Catch(TRUE))]
    IN /\ c.pc = "send"
       /\ delivered' = IF ok THEN Delivered(delivered, Head(c.queue), c.newArticles)
                       ELSE delivered
       /\ IF c.kind = "command"
          THEN IF ok
               THEN CheckStep(h, MarkedBy(sent, c.newArticles), TRUE, w)
               ELSE CheckStep(h, [sent EXCEPT !.pc = "done"], FALSE, w)
          ELSE IF sent.queue = << >>
               THEN CheckStep(h, MarkedBy(sent, c.newArticles), TRUE, w)
               ELSE CheckStep(h, sent, FALSE, w)
       /\ UNCHANGED << checksStarted, prefs >>
       /\ UNCHANGED << currentList, seenSet, newLog, marked >>
       /\ UNCHANGED << sessionVars, silent, raised, scrapeVars, schedVars, callVars, accessVars,
                    credVars >>

NextCheck ==
    \/ \E h \in Handlers, isFirstRun \in BOOLEAN, mkdirOk \in BOOLEAN :
          StartCheckForUpdates(h, isFirstRun, mkdirOk)
    \/ \E h \in Handlers, chatId \in Chats : StartCheckCommand(h, chatId)
    \/ \E h \in Handlers, out \in ScrapeReturns(FALSE), w \in WriteOutcomes :
          ScrapeReturnedToCheck(h, out, w)
    \/ \E h \in Handlers, out \in ScrapeReturns(FALSE) :
          ScrapeReturnedToCommand(h, out)
    \/ \E h \in Handlers, ok \in BOOLEAN, w \in WriteOutcomes :
          SendAnswered(h, ok, w)

SpecCheck == InitCheck /\ [][NextCheck]_vars





\* ================================================ index.js: the cron job
\* What follows /reminder: off, or a number of minutes.
ReminderArgs ==
    {[kind |-> "off", minutes |-> 0]}
    \cup {[kind |-> "minutes", minutes |-> n] : n \in {5, 10, 12}}

\* setUserPreference(userId, key, value): the file is read, changed and
\* written; a write that fails is logged and leaves the file as it was.
setUserPreference(file, u, key, value, written) ==
    IF ~written THEN file
    ELSE [file EXCEPT ![u] = [@ EXCEPT ![key] = value]]

\* The preferences file after the /reminder handler ran for user u.
ReminderPrefs(file, u, arg, written1, written2) ==
    IF arg.kind = "off"
    THEN setUserPreference(file, u, "reminderEnabled", FALSE, written1)
    ELSE IF arg.minutes < 10 \/ arg.minutes > 1440 THEN file
    ELSE setUserPreference(
             setUserPreference(file, u, "reminderInterval", arg.minutes,
                               written1),
             u, "reminderEnabled", TRUE, written2)

\* The /reminder command of a user u who may use the bot, with an argument.
ReminderCommand(u, arg, written1, written2) ==
    /\ prefs' = ReminderPrefs(prefs, u, arg, written1, written2)
    /\ UNCHANGED << checks, phase, checksStarted, delivered, writeFailed >>
    /\ UNCHANGED << sessionVars, silent, raised, scrapeVars, seenVars, schedVars,
                    callVars, accessVars,
                    credVars >>

\* The delay of a cron tick after the full minute, in ms.
Jitter == {0, 1}

\* userLastCheck.get(user.userId) || 0
LastCheck(m, u) == IF u \in DOMAIN m THEN m[u] ELSE 0

\* The comparison without the equality.
IsDue_Strict(t, lastCheck, intervalMinutes) ==
    t - lastCheck > intervalMinutes * 60 * 1000

\* now - lastCheck >= intervalMs
IsDue(t, lastCheck, intervalMinutes) ==
    t - lastCheck >= intervalMinutes * 60 * 1000

\* The users of the file whose interval has passed at time t.
DueUsers(file, m, t) ==
    LET usersWithReminders == getAllUsersWithReminders(file)
    IN {usersWithReminders[i].userId : i \in
          {j \in DOMAIN usersWithReminders :
             IsDue(t, LastCheck(m, usersWithReminders[j].userId),
                   usersWithReminders[j].intervalMinutes)}}

\* The cron job fires at time t, shortly after the next full minute, and
\* runPerUserChecks runs up to its await of checkForUpdates(false), which it
\* calls when some user is due.
TickRuns(t) ==
    LET due == DueUsers(prefs, userLastCheck, t)
        needsCheck == due # {}
    IN /\ t <= START_MS + MaxMinutes * 60000 + 1
       /\ t > tickNow
       /\ tickNow' = t
       /\ userLastCheck' = [u \in (DOMAIN userLastCheck) \cup due |->
                              IF u \in due THEN t ELSE userLastCheck[u]]
       /\ tickLog' = [ran |-> TRUE, calls |-> IF needsCheck THEN 1 ELSE 0]

\* A tick of the cron job, the check it may call not followed.
RunPerUserChecks(t) ==
    /\ TickRuns(t)
    /\ UNCHANGED << sessionVars, silent, raised, scrapeVars, seenVars, checkVars,
                    callVars, accessVars, credVars >>

\* A tick of the cron job together with the start of the check it calls,
\* which runs in handler h.
CronTick(t, h, mkdirOk) ==
    /\ TickRuns(t)
    /\ IF DueUsers(prefs, userLastCheck, t) # {}
       THEN CheckStarts(h, FALSE, mkdirOk, t)
       ELSE /\ mkdirOk
            /\ h = 1
            /\ UNCHANGED << checkVars, seenVars >>
    /\ UNCHANGED << sessionVars, silent, raised, scrapeVars, callVars, accessVars,
                    credVars >>

NextSched ==
    \/ \E u \in Chats, arg \in ReminderArgs, written1, written2 \in BOOLEAN :
          ReminderCommand(u, arg, written1, written2)
    \/ \E j \in Jitter :
          RunPerUserChecks(((tickNow \div 60000) + 1) * 60000 + j)

SpecSched == Init /\ [][NextSched]_vars

\* ============================================== the bot: who may use it
\* process.env.ADMIN_CHAT_ID, a string.
ADMIN_CHAT_ID == [kind |-> "str", v |-> 1]

\* msg.from.id of user u, a number.
FromId(u) == [kind |-> "num", v |-> u]

\* What follows /grant or /revoke, or the admin_grant_ or admin_revoke_
\* prefix of a button: the id of user u as a string.
Target(u) == [kind |-> "str", v |-> u]

\* isAdmin: String(userId) === String(adminId)
isAdmin(id) == String(id) = String(ADMIN_CHAT_ID)

\* isUserAllowed: loadAllowedUsers().has(String(userId))
isUserAllowed(file, id) == String(id) \in file

\* canUseBot: admin or allowed user
canUseBot(file, id) == isAdmin(id) \/ isUserAllowed(file, id)

\* addAllowedUser: the set is loaded, changed and saved; a write that fails
\* is logged and leaves the file as it was.
addAllowedUser(file, id, written) ==
    IF written THEN file \cup {String(id)} ELSE file

\* removeAllowedUser
removeAllowedUser(file, id, written) ==
    IF written THEN file \ {String(id)} ELSE file

\* The /revoke command of user u for a target: only the admin's is obeyed.
RevokeCommand(u, target, written) ==
    /\ botLog' = Message(u, "revoke", target.v, "none")
    /\ allowedUsers' = IF isAdmin(FromId(u))
                       THEN removeAllowedUser(allowedUsers, target, written)
                       ELSE allowedUsers
    /\ UNCHANGED << accessRequests, deleting, credVars >>
    /\ UNCHANGED << sessionVars, silent, raised, scrapeVars, seenVars, checkVars,
                    schedVars, callVars >>

\* The /reminder command of user u with an argument: only a user who may use
\* the bot is obeyed.
ReminderMessage(u, arg, written1, written2) ==
    /\ botLog' = Message(u, "reminder", 0, "none")
    /\ prefs' = IF canUseBot(allowedUsers, FromId(u))
                THEN ReminderPrefs(prefs, u, arg, written1, written2)
                ELSE prefs
    /\ UNCHANGED << checks, phase, checksStarted, delivered, writeFailed >>
    /\ UNCHANGED << allowedUsers, accessRequests, deleting, credVars >>
    /\ UNCHANGED << sessionVars, silent, raised, scrapeVars, seenVars, schedVars,
                    callVars >>

\* ------------------------------- scheduled checks and what users may change
\* The stored state the checks start from: user 2 was granted access, and
\* each user has reminders enabled or never set them.
InitNotify ==
    /\ SessionInit
    /\ ScrapeInit
    /\ currentList = << >>
    /\ seenFile \in StartFiles
    /\ seenSet = loadSeenArticles(seenFile)
    /\ newLog = << >>
    /\ marked = NoMark
    /\ checks = [h \in Handlers |-> NoCheck]
    /\ phase = "boot"
    /\ checksStarted = 0
    /\ delivered = [c \in Chats |-> [i \in Ids |-> 0]]
    /\ writeFailed = FALSE
    /\ prefs \in StartPrefs
    /\ SchedInit
    /\ CallInit
    /\ allowedUsers = {Target(2)}
    /\ accessRequests = << >>
    /\ botLog = NoMessage
    /\ deleting = [c \in Chats |-> << >>]
    /\ args = [p \in Procs |-> NoCredentials]
    /\ loginOf = << >>

\* No check is between its start and its end.
Idle == \A h \in Handlers : checks[h].pc \in {"idle", "done"}

\* The checks main and the cron job start, the /reminder off commands of the
\* users, and the /revoke commands the admin sends while no check runs.
NextNotify ==
    \/ \E h \in Handlers, isFirstRun \in BOOLEAN, mkdirOk \in BOOLEAN :
          StartCheckForUpdates(h, isFirstRun, mkdirOk)
    \/ \E h \in Handlers, out \in ScrapeReturns(FALSE), w \in WriteOutcomes :
          ScrapeReturnedToCheck(h, out, w)
    \/ \E h \in Handlers, ok \in BOOLEAN, w \in WriteOutcomes :
          SendAnswered(h, ok, w)
    \/ \E u \in Chats, written \in BOOLEAN :
          ReminderMessage(u, [kind |-> "off", minutes |-> 0], written, TRUE)
    \/ \E u, t \in Chats, written \in BOOLEAN :
          Idle /\ RevokeCommand(u, Target(t), written)

SpecNotify == InitNotify /\ [][NextNotify]_vars

\* ------------------------------------------ the cron job and its checks
\* The process after its startup check: user 2 was granted access, nobody
\* has set a reminder yet.
InitRemind ==
    /\ SessionInit
    /\ ScrapeInit
    /\ currentList = << >>
    /\ seenFile \in {SeenFile({}), SeenFile({<< 7 >>})}
    /\ seenSet = loadSeenArticles(seenFile)
    /\ newLog = << >>
    /\ marked = NoMark
    /\ checks = [h \in Handlers |-> NoCheck]
    /\ phase = "running"
    /\ checksStarted = 0
    /\ delivered = [c \in Chats |-> [i \in Ids |-> 0]]
    /\ writeFailed = FALSE
    /\ prefs = [c \in Chats |-> NoPrefs]
    /\ SchedInit
    /\ CallInit
    /\ allowedUsers = {Target(2)}
    /\ accessRequests = << >>
    /\ botLog = NoMessage
    /\ deleting = [c \in Chats |-> << >>]
    /\ args = [p \in Procs |-> NoCredentials]
    /\ loginOf = << >>

\* The intervals the users ask for.
Intervals == {[kind |-> "minutes", minutes |-> n] : n \in {10, 12}}

\* The users set their reminders before the first tick; the cron job then
\* ticks every full minute and its checks run, every write succeeding.
NextRemind ==
    \/ \E u \in Chats, arg \in Intervals :
          tickNow = START_MS /\ ReminderMessage(u, arg, TRUE, TRUE)
    \/ \E h \in Handlers :
          CronTick(((tickNow \div 60000) + 1) * 60000, h, TRUE)
    \/ \E h \in Handlers, out \in ScrapeReturns(FALSE) :
          ScrapeReturnedToCheck(h, out, "written")
    \/ \E h \in Handlers, ok \in BOOLEAN :
          SendAnswered(h, ok, "written")

SpecRemind == InitRemind /\ [][NextRemind]_vars

\* ------------------------------------------------ the handlers of the bot
\* text.startsWith('/'), text.startsWith('admin_'): the text's first
\* characters are the prefix.
startsWith(text, prefix) ==
    /\ Len(text) >= Len(prefix)
    /\ SubSeq(text, 1, Len(prefix)) = prefix

\* addAccessRequest: a request of the same user is replaced in its place, a
\* new one is appended; a write that fails leaves the file as it was.
addAccessRequest(file, id, written) ==
    IF ~written \/ \E i \in DOMAIN file : file[i] = String(id)
    THEN file
    ELSE Append(file, String(id))

\* removeAccessRequest: the requests of other users are kept.
removeAccessRequest(file, id, written) ==
    IF written THEN SelectSeq(file, LAMBDA r : r # String(id)) ELSE file

\* The pending requests name this user.
HasRequest(file, id) == \E i \in DOMAIN file : file[i] = String(id)

\* /start: a user who may use the bot is welcomed, any other user's request
\* is logged.
StartCommand(u, written) ==
    /\ botLog' = Message(u, "start", 0, "none")
    /\ accessRequests' = IF canUseBot(allowedUsers, FromId(u))
                         THEN accessRequests
                         ELSE addAccessRequest(accessRequests, FromId(u), written)
    /\ UNCHANGED << allowedUsers, deleting, credVars >>
    /\ UNCHANGED << sessionVars, silent, raised, scrapeVars, seenVars, checkVars,
                    schedVars, callVars >>

\* /check: a user who may use the bot has the articles scraped, and the
\* handler waits for them.
CheckMessage(h, u) ==
    /\ IF canUseBot(allowedUsers, FromId(u))
       THEN /\ checksStarted < MaxChecks
            /\ checks[h].pc \in {"idle", "done"}
            /\ checksStarted' = checksStarted + 1
            /\ CheckStep(h, [NoCheck EXCEPT !.kind = "command", !.chatId = u,
                                            !.pc = "scrape"],
                         FALSE, "written")
            /\ botLog' = Message(u, "check", 0, "scrapeArticles")
       ELSE /\ botLog' = Message(u, "check", 0, "none")
            /\ UNCHANGED << checks, phase, checksStarted, seenFile, writeFailed >>
    /\ UNCHANGED << delivered, prefs >>
    /\ UNCHANGED << currentList, seenSet, newLog, marked >>
    /\ UNCHANGED << allowedUsers, accessRequests, deleting, credVars >>
    /\ UNCHANGED << sessionVars, silent, raised, scrapeVars, schedVars, callVars >>

\* /latest: a user who may use the bot has the articles scraped; nothing is
\* stored.
LatestMessage(u) ==
    /\ botLog' = Message(u, "latest", 0,
                         IF canUseBot(allowedUsers, FromId(u))
                         THEN "scrapeArticles" ELSE "none")
    /\ UNCHANGED << allowedUsers, accessRequests, deleting, credVars >>
    /\ UNCHANGED << sessionVars, silent, raised, scrapeVars, seenVars, checkVars,
                    schedVars, callVars >>

\* The word that removes the credentials.
ClearWord == << "c", "l", "e", "a", "r" >>

\* args && args.toLowerCase() === 'clear', args being the trimmed argument
IsClear(arg) == trim(arg) # << >> /\ toLowerCase(trim(arg)) = ClearWord

\* The preferences after /setpai with an argument (empty: none): `clear'
\* unsets the credentials and the step, stored credentials without an
\* argument are only shown, anything else starts the flow.
SetPaiPrefs(file, u, arg, written1, written2, written3) ==
    LET a == trim(arg)
    IN  IF IsClear(arg)
        THEN setUserPreference(
                 setUserPreference(
                     setUserPreference(file, u, "paiEmail", << >>, written1),
                     u, "paiPassword", << >>, written2),
                 u, "paiLoginStep", "none", written3)
        ELSE IF file[u].paiEmail # << >> /\ a = << >>
             THEN file
             ELSE setUserPreference(file, u, "paiLoginStep", "email", written1)

\* /setpai of user u: only a user who may use the bot is obeyed.
SetPaiCommand(u, arg, written1, written2, written3) ==
    /\ botLog' = Message(u, IF IsClear(arg) THEN "setpai clear" ELSE "setpai",
                         0, "none")
    /\ prefs' = IF canUseBot(allowedUsers, FromId(u))
                THEN SetPaiPrefs(prefs, u, arg, written1, written2, written3)
                ELSE prefs
    /\ UNCHANGED << checks, phase, checksStarted, delivered, writeFailed >>
    /\ UNCHANGED << allowedUsers, accessRequests, deleting, credVars >>
    /\ UNCHANGED << sessionVars, silent, raised, scrapeVars, seenVars, schedVars,
                    callVars >>

\* A message of user u that no command handler takes: a text that starts
\* with '/' and a user outside the flow are ignored, an email is stored, a
\* password has its message deleted first, and the handler waits for that.
TextMessage(u, text, written1, written2) ==
    LET t == trim(text)
        loginStep == prefs[u].paiLoginStep
        inFlow == ~startsWith(text, << "/" >>) /\ loginStep # "none"
    IN  /\ botLog' = Message(u, IF startsWith(text, << "/" >>)
                                THEN "unknown" ELSE "text", 0, "none")
        /\ (inFlow /\ loginStep = "password") => deleting[u] = << >>
        /\ prefs' = IF inFlow /\ loginStep = "email"
                    THEN setUserPreference(
                             setUserPreference(prefs, u, "paiTempEmail", t,
                                               written1),
                             u, "paiLoginStep", "password", written2)
                    ELSE prefs
        /\ deleting' = IF inFlow /\ loginStep = "password"
                       THEN [deleting EXCEPT ![u] = t]
                       ELSE deleting
        /\ UNCHANGED << checks, phase, checksStarted, delivered, writeFailed >>
        /\ UNCHANGED << allowedUsers, accessRequests, credVars >>
        /\ UNCHANGED << sessionVars, silent, raised, scrapeVars, seenVars,
                        schedVars, callVars >>

\* The preferences after the password message was deleted: without a
\* temporary email the flow is left, else the credentials are stored.
PasswordPrefs(file, u, text, written1, written2, written3, written4) ==
    LET email == file[u].paiTempEmail
    IN  IF email = << >>
        THEN setUserPreference(file, u, "paiLoginStep", "none", written1)
        ELSE setUserPreference(
                 setUserPreference(
                     setUserPreference(
                         setUserPreference(file, u, "paiEmail", email, written1),
                         u, "paiPassword", text, written2),
                     u, "paiTempEmail", << >>, written3),
                 u, "paiLoginStep", "none", written4)

\* deleteMessage has answered, or failed: the handler of the password
\* message goes on.
DeleteAnswered(u, written1, written2, written3, written4) ==
    /\ deleting[u] # << >>
    /\ botLog' = Message(u, "deleted", 0, "none")
    /\ prefs' = PasswordPrefs(prefs, u, deleting[u], written1, written2,
                              written3, written4)
    /\ deleting' = [deleting EXCEPT ![u] = << >>]
    /\ UNCHANGED << checks, phase, checksStarted, delivered, writeFailed >>
    /\ UNCHANGED << allowedUsers, accessRequests, credVars >>
    /\ UNCHANGED << sessionVars, silent, raised, scrapeVars, seenVars, schedVars,
                    callVars >>

\* /examstatus of user u: for a user who may use the bot and has both
\* credentials stored, fetchExamListForUser is called with them.
ExamStatusMessage(p, u) ==
    LET credentials == StoredCredentials(prefs, FromId(u))
    IN  /\ IF /\ canUseBot(allowedUsers, FromId(u))
              /\ credentials.email # << >>
              /\ credentials.password # << >>
           THEN /\ Calls(p, "fetchExamListForUser", FromId(u), credentials)
                /\ botLog' = Message(u, "examstatus", 0,
                                     "fetchExamListForUser")
           ELSE /\ botLog' = Message(u, "examstatus", 0, "none")
                /\ UNCHANGED << sessionVars, raised, credVars >>
        /\ UNCHANGED << allowedUsers, accessRequests, deleting >>
        /\ UNCHANGED << silent, scrapeVars, seenVars, checkVars, schedVars,
                        callVars >>

\* /grant of user u for a target: only the admin's is obeyed; the target is
\* added to the allowed users and its request removed.
GrantCommand(u, target, written1, written2) ==
    /\ botLog' = Message(u, "grant", target.v, "none")
    /\ IF isAdmin(FromId(u))
       THEN /\ allowedUsers' = addAllowedUser(allowedUsers, target, written1)
            /\ accessRequests' =
                   removeAccessRequest(accessRequests, target, written2)
       ELSE UNCHANGED << allowedUsers, accessRequests >>
    /\ UNCHANGED << deleting, credVars >>
    /\ UNCHANGED << sessionVars, silent, raised, scrapeVars, seenVars, checkVars,
                    schedVars, callVars >>

\* The user who asks for access and walks through the credential flow.
Member == 2

\* The data of the buttons: admin_grant_ and admin_revoke_ followed by a
\* user id, a button of the admin panel, and data no branch handles.
Buttons ==
    {[action |-> a, target |-> t] :
        a \in {"admin_grant_", "admin_revoke_"}, t \in {Member}}
    \cup {[action |-> "admin_requests", target |-> 0],
          [action |-> "noop", target |-> 0]}

\* The data starts with admin_.
IsAdminButton(data) ==
    data.action \in {"admin_grant_", "admin_revoke_", "admin_requests"}

\* A button pressed by user u: an admin_ button of anyone but the admin is
\* refused; admin_grant_ and admin_revoke_ do what the commands do.
ButtonPressed(u, data, written1, written2) ==
    LET obeyed == ~(IsAdminButton(data) /\ ~isAdmin(FromId(u)))
        target == Target(data.target)
    IN  /\ botLog' = Message(u, data.action, data.target, "none")
        /\ allowedUsers' =
               IF obeyed /\ data.action = "admin_grant_"
               THEN addAllowedUser(allowedUsers, target, written1)
               ELSE IF obeyed /\ data.action = "admin_revoke_"
                    THEN removeAllowedUser(allowedUsers, target, written1)
                    ELSE allowedUsers
        /\ accessRequests' =
               IF obeyed /\ data.action = "admin_grant_"
               THEN removeAccessRequest(accessRequests, target, written2)
               ELSE accessRequests
        /\ UNCHANGED << deleting, credVars >>
        /\ UNCHANGED << sessionVars, silent, raised, scrapeVars, seenVars,
                        checkVars, schedVars, callVars >>

\* The bot after its start: nobody was granted access, nothing is stored.
InitBot ==
    /\ SessionInit
    /\ ScrapeInit
    /\ currentList = << >>
    /\ seenFile = SeenFile({})
    /\ seenSet = loadSeenArticles(seenFile)
    /\ newLog = << >>
    /\ marked = NoMark
    /\ checks = [h \in Handlers |-> NoCheck]
    /\ phase = "running"
    /\ checksStarted = 0
    /\ delivered = [c \in Chats |-> [i \in Ids |-> 0]]
    /\ writeFailed = FALSE
    /\ prefs = [c \in Chats |-> NoPrefs]
    /\ SchedInit
    /\ CallInit
    /\ AccessInit

\* The texts users send: an address or password with a space after it, and
\* a command no handler knows.
BotTexts == {<< "a", " " >>, << "/", "x" >>}

\* What follows /setpai: nothing, the word clear in capitals, another word.
SetPaiArgs == {<< >>, << "C", "L", "E", "A", "R", " " >>, << "x" >>}

\* The messages and button presses of the admin (user 1) and of user 2: the
\* admin administers and checks, user 2 sends every message there is.
NextBot ==
    \/ \E u \in Chats, written \in BOOLEAN : StartCommand(u, written)
    \/ \E u \in Chats : CheckMessage(1, u)
    \/ \E u \in Chats : LatestMessage(u)
    \/ \E arg \in SetPaiArgs, w1, w2, w3 \in BOOLEAN :
          SetPaiCommand(Member, arg, w1, w2, w3)
    \/ \E text \in BotTexts, w1, w2 \in BOOLEAN :
          TextMessage(Member, text, w1, w2)
    \/ \E w1, w2, w3, w4 \in BOOLEAN :
          DeleteAnswered(Member, w1, w2, w3, w4)
    \/ ExamStatusMessage(1, Member)
    \/ \E u \in Chats, w1, w2 \in BOOLEAN :
          GrantCommand(u, Target(Member), w1, w2)
    \/ \E u \in Chats, written \in BOOLEAN :
          RevokeCommand(u, Target(Member), written)
    \/ \E u \in Chats, data \in Buttons, w1, w2 \in BOOLEAN :
          ButtonPressed(u, data, w1, w2)
    \/ \E arg \in {[kind |-> "off", minutes |-> 0],
                    [kind |-> "minutes", minutes |-> 10]}, written \in BOOLEAN :
          ReminderMessage(Member, arg, written, TRUE)

SpecBot == InitBot /\ [][NextBot]_vars

\* ------------------------------------- credentials changed between fetches
\* The texts of the credential flow: two addresses or passwords.
CredentialTexts == {<< "a", " " >>, << "b" >>}

\* The admin (who may always use the bot) stores credentials, asks for the
\* exam status, and changes or removes the credentials; every write of the
\* preferences succeeds, and one request is under way at a time.
NextCreds ==
    \/ \E t \in Instants : Tick(t)
    \/ \E arg \in SetPaiArgs :
          deleting[1] = << >> /\ SetPaiCommand(1, arg, TRUE, TRUE, TRUE)
    \/ \E text \in CredentialTexts : TextMessage(1, text, TRUE, TRUE)
    \/ DeleteAnswered(1, TRUE, TRUE, TRUE, TRUE)
    \/ deleting[1] = << >> /\ ExamStatusMessage(1, 1)
    \/ \E a \in LoginAnswers(FreshToken) : LoginAnswered(1, a)
    \/ \E a \in FetchAnswers : FetchAnswered(1, a)

SpecCreds == InitBot /\ [][NextCreds]_vars

\* ===================================== examMonitor.js: functions on their own
\* The labels of the anchors in the action column.
LinkTexts ==
    {<< "D", "e", "t", "a", "i", "l" >>,
     << " ", "B", "a", "y", "a", "r" >>,
     << "C", "E", "T", "A", "K", " ", "U", "N", "D", "A", "N", "G", "A", "N" >>,
     << "C", "e", "t", "a", "k", " ", "K", "a", "r", "t", "u" >>,
     << "L", "i", "h", "a", "t", " ", "C", "e", "t", "a", "k", " ", "K", "a", "r", "t", "u", " ", "U", "j", "i", "a", "n" >>}

\* The anchors of a sixth cell, the href of each telling its place.
LinkLists ==
    {[i \in DOMAIN texts |-> [text |-> texts[i], href |-> i]] :
        texts \in UNION {[1..n -> LinkTexts] : n \in 0..MaxLinks}}

\* Rows of the table: with five or six cells, a first cell that is blank,
\* the header literal or a code, with and without anchors.
Kodes == {<< " " >>, KODE, << "A", "1" >>, << " ", "B", "2" >>}

PlainRows ==
    {[ncells |-> 6, kode |-> KODE, links |-> << >>],
     [ncells |-> 6, kode |-> << "A", "1" >>, links |-> << >>],
     [ncells |-> 5, kode |-> << "A", "1" >>, links |-> << >>]}

TableRows == [ncells : {5, 6}, kode : Kodes, links : LinkLists]

\* The pages parseExamTable is called on: no table.table, or a table of up
\* to MaxRows rows, the last one with anchors in its action column.
ExamPages ==
    {[empty |-> e, hasTable |-> FALSE, rows |-> << >>] : e \in BOOLEAN}
    \cup {[empty |-> FALSE, hasTable |-> TRUE, rows |-> before \o << last >>] :
            before \in UNION {[1..n -> PlainRows] : n \in 0..(MaxRows - 1)},
            last \in TableRows}
    \cup {[empty |-> FALSE, hasTable |-> TRUE, rows |-> << >>]}

\* The Set-Cookie headers login is called on.
Cookies ==
    {[name |-> "other", value |-> 1], [name |-> "ci_session", value |-> 0],
     [name |-> "ci_session", value |-> 1], [name |-> "ci_session", value |-> 2]}

SetCookieHeaders == UNION {[1..n -> Cookies] : n \in 0..MaxCookies}

LoginResponses ==
    {[kind |-> k, cookies |-> c] : k \in {"ok", "errResp"}, c \in SetCookieHeaders}
    \cup {[kind |-> "errNoResp", cookies |-> << >>]}

\* parseExamTable(html) is called and returns.
CallParseExamTable(html) ==
    /\ called = "none"
    /\ called' = "parseExamTable"
    /\ given' = html
    /\ returned' = parseExamTable(html)
    /\ UNCHANGED << sessionVars, silent, raised, scrapeVars, seenVars, checkVars,
                    schedVars, accessVars, credVars >>

\* login is called at time t, the server answers, and login returns.
CallLogin(answer, t) ==
    /\ called = "none"
    /\ called' = "login"
    /\ given' = [answer |-> answer, time |-> t]
    /\ returned' = login(answer, t)
    /\ UNCHANGED << sessionVars, silent, raised, scrapeVars, seenVars, checkVars,
                    schedVars, accessVars, credVars >>

NextCall ==
    \/ \E html \in ExamPages : CallParseExamTable(html)
    \/ \E answer \in LoginResponses, t \in Instants : CallLogin(answer, t)

SpecCall == Init /\ [][NextCall]_vars

\* ======================================== the operations and what they throw
\* The calls of examMonitor.js one after another, and the checks: the two
\* share no state, so each runs from the start without the other.
NextCrash ==
    \/ \E t \in Instants : checksStarted = 0 /\ Tick(t)
    \/ \E uid \in UserIds : checksStarted = 0 /\ StartFetchExamList(1, uid)
    \/ \E uid \in UserIds : checksStarted = 0 /\ StartGetSession(1, uid)
    \/ \E uid \in UserIds : checksStarted = 0 /\ CallClearSession(1, uid)
    \/ \E a \in LoginAnswers(FreshToken) : LoginAnswered(1, a)
    \/ \E a \in FetchAnswers : FetchAnswered(1, a)
    \/ \E c \in HeldTokens : checksStarted = 0 /\ StartFetchPdf(1, c)
    \/ \E a \in PdfAnswers : PdfAnswered(1, a)
    \/ \E h \in Handlers, isFirstRun \in BOOLEAN, mkdirOk \in BOOLEAN :
          started = 0 /\ now = 0 /\ StartCheckForUpdates(h, isFirstRun, mkdirOk)
    \/ \E h \in Handlers, chatId \in Chats :
          started = 0 /\ now = 0 /\ StartCheckCommand(h, chatId)
    \/ \E h \in Handlers, out \in ScrapeReturns(FALSE), w \in WriteOutcomes :
          ScrapeReturnedToCheck(h, out, w)
    \/ \E h \in Handlers, out \in ScrapeReturns(FALSE) :
          ScrapeReturnedToCommand(h, out)
    \/ \E h \in Handlers, ok \in BOOLEAN, w \in WriteOutcomes :
          SendAnswered(h, ok, w)

SpecCrash == InitCheck /\ [][NextCrash]_vars

\* ================================================================== claims
AllRedirected(log) == log # << >> /\ \A i \in DOMAIN log : log[i] = "loginRedirect"

IsList(p) == op[p] = "fetchExamListForUser"

\* C1: one call of fetchExamListForUser makes at most two login attempts and
\* at most two exam-page fetches, whatever the server answers; a call that
\* found no cached session and whose every fetch ended on the login page has
\* made exactly two login attempts when it returns, and returns null.
C1_RetryBounded ==
    \A p \in Procs :
        IsList(p) =>
            /\ logins[p] <= 2
            /\ fetches[p] <= 2
            /\ attempt[p] <= 2
            /\ (pc[p] = "done" /\ ~cached[p] /\ AllRedirected(fetchLog[p]))
                 => (logins[p] = 2 /\ result[p] = Null)

C1_Witness ==
    \E p \in Procs :
        /\ IsList(p) /\ pc[p] = "done" /\ ~cached[p]
        /\ fetchLog[p] = << "loginRedirect", "loginRedirect" >>
        /\ logins[p] = 2 /\ fetches[p] = 2 /\ result[p] = Null

\* C2: isSessionValid(id) is true exactly when the store holds a session for
\* id and now is before the instant of the login that produced it plus
\* 36000 s minus 300 s: true at the login's instant, false from that edge on,
\* false without an entry.
C2_Validity ==
    \A u \in UserIds :
        isSessionValid(userSessions, u, now)
            <=> /\ MapHas(userSessions, String(u))
                /\ MapHas(issuedAt, String(u))
                /\ now < issuedAt[String(u)] + 36000 * 1000 - 300 * 1000

C2_Witness ==
    \E u \in UserIds :
        /\ MapHas(userSessions, String(u))
        /\ now = issuedAt[String(u)] + 36000 * 1000 - 300 * 1000
        /\ ~isSessionValid(userSessions, u, now)

\* C3: a call of fetchExamListForUser that found no valid cached session and
\* whose first login gave no session has returned null, has sent no GET and
\* has made no second login attempt.
C3_LoginFailureIsFinal ==
    \A p \in Procs :
        (IsList(p) /\ ~cached[p] /\ loginLog[p] # << >> /\ loginLog[p][1] # "session")
            => /\ pc[p] = "done"
               /\ result[p] = Null
               /\ fetches[p] = 0
               /\ logins[p] = 1

C3_Witness ==
    \E p \in Procs :
        /\ IsList(p) /\ ~cached[p] /\ pc[p] = "done"
        /\ loginLog[p] = << "nocookie" >>
        /\ result[p] = Null /\ fetches[p] = 0

\* C4: fetchExamListForUser clears the session and logs in again if and only
\* if its first fetch ended on the login page; not after a transport error
\* and not after an empty body.
C4_ClearOnlyOnLoginRedirect ==
    \A p \in Procs :
        (IsList(p) /\ fetchLog[p] # << >>)
            => ((clears[p] >= 1) <=> (fetchLog[p][1] = "loginRedirect"))


\* The entry of a key, NoSession when the Map has none.
Entry(m, k) == IF MapHas(m, k) THEN m[k] ELSE NoSession

\* Call p returns in this step.
Returns(p) == pc[p] \in {"login", "fetch"} /\ pc'[p] = "done"

\* C5: when the first fetch ended on the login page, the re-login gave a
\* session and the retried fetch gave the page, fetchExamListForUser returns
\* the parsed records, the retried fetch carried the token of the re-login
\* and not the rejected one, and at the return the store holds a session for
\* the identity (no caller having asked for the session to be cleared).
C5_ExpiryRecovered ==
    [][ \A p \in Procs :
          (/\ IsList(p) /\ Returns(p)
           /\ fetchLog'[p] = << "loginRedirect", "page" >>
           /\ \A q \in Procs : op[q] # "clearSession")
            => /\ ~result'[p].isNull
               /\ sentLog'[p][2] = cookie'[p]
               /\ sentLog'[p][2] # sentLog'[p][1]
               /\ MapHas(userSessions', String(userId[p]))
      ]_vars

\* What the caller of a call gets back: the cookie of getSession, the value
\* of fetchExamListForUser.
Outcome(p) == << cookie[p], result[p] >>

\* C6: a call that failed on a transport error of its login and a call of
\* the same function that failed because the login gave no session cookie
\* report different outcomes to their callers.
C6_TransportDistinctFromAuth ==
    \A p, q \in Procs :
        (/\ op[p] = op[q] /\ op[p] \in {"getSession", "fetchExamListForUser"}
         /\ pc[p] = "done" /\ pc[q] = "done"
         /\ loginLog[p] = << "transport" >>
         /\ loginLog[q] = << "nocookie" >>)
            => Outcome(p) # Outcome(q)

\* C7: a document fetch that ended on the login page has cleared the
\* session, logged in again once and sent the GET a second time.
C7_PdfReauthenticates ==
    \A p \in Procs :
        (/\ op[p] = "fetchExamResultPdf" /\ pc[p] = "done"
         /\ fetchLog[p] # << >> /\ fetchLog[p][1] = "loginRedirect")
            => (clears[p] = 1 /\ logins[p] = 1 /\ fetches[p] = 2)

\* C8: when fetchExamListForUser returns, no token that one of its fetches
\* saw rejected (the fetch ended on the login page) is the stored session of
\* the identity.
C8_RejectedTokenNotStored ==
    [][ \A p \in Procs :
          (IsList(p) /\ Returns(p))
            => \A i \in DOMAIN fetchLog'[p] :
                  fetchLog'[p][i] = "loginRedirect"
                    => Entry(userSessions', String(userId[p])).cookie # sentLog'[p][i]
      ]_vars

\* Every key the Map can come to hold.
AllKeys == UserIds \cup {String(u) : u \in UserIds}

\* Call p takes a step of an operation on identity k.
CallOn(p, k) ==
    \/ \E uid \in UserIds :
          /\ String(uid) = k
          /\ \/ StartFetchExamList(p, uid)
             \/ StartGetSession(p, uid)
             \/ CallClearSession(p, uid)
    \/ /\ String(userId[p]) = k
       /\ \/ /\ pc[p] = "login"
             /\ \E a \in LoginAnswers(FreshToken) :
                   /\ loginLog'[p] = Append(loginLog[p], LoginClass(a, now))
                   /\ LoginAnswered(p, a)
          \/ \E a \in FetchAnswers : FetchAnswered(p, a)

\* C9: every key of the store is the string form of a user id, so an
\* identity has at most one session; and a step changes the stored session
\* of an identity only if it is a step of getSession, clearSession or
\* fetchExamListForUser called for that identity.
C9_OnePerIdentityAndFrame ==
    /\ [](\A k \in DOMAIN userSessions : k = String(k))
    /\ [][ \/ userSessions' = userSessions
           \/ \A k \in AllKeys :
                 Entry(userSessions', k) # Entry(userSessions, k)
                   => \E p \in Procs : CallOn(p, String(k))
         ]_vars

C9_Witness ==
    \E p, q \in Procs :
        /\ String(userId[p]) # String(userId[q])
        /\ userId[p].kind = "num"
        /\ MapHas(userSessions, String(userId[p]))
        /\ MapHas(userSessions, String(userId[q]))
        /\ op[p] = "fetchExamListForUser" /\ clears[p] = 1 /\ pc[p] = "done"

\* Two finished getSession calls for one identity that both logged in.
Raced(p, q) ==
    /\ p # q
    /\ op[p] = "getSession" /\ op[q] = "getSession"
    /\ pc[p] = "done" /\ pc[q] = "done"
    /\ String(userId[p]) = String(userId[q])
    /\ loginLog[p] = << "session" >> /\ loginLog[q] = << "session" >>

\* C10: a login that gives a session leaves exactly that session in the
\* store, whatever a racing login stored before it; and after two getSession
\* calls for one identity have both logged in, the store holds the session of
\* one of them, token and expiry from the same login.
C10_LastWriterWins ==
    /\ [][ \A p \in Procs :
              loginLog'[p] = Append(loginLog[p], "session")
                => Entry(userSessions', String(userId[p]))
                     = [cookie |-> cookie'[p], expiry |-> now + 36000 * 1000]
         ]_vars
    /\ [](\A p, q \in Procs :
            Raced(p, q)
              => /\ MapHas(userSessions, String(userId[p]))
                 /\ userSessions[String(userId[p])].cookie \in {cookie[p], cookie[q]}
                 /\ userSessions[String(userId[p])].expiry
                      = issuedAt[String(userId[p])] + 36000 * 1000)

C10_Witness ==
    \E p, q \in Procs :
        /\ Raced(p, q)
        /\ cookie[p] # cookie[q]
        /\ userSessions[String(userId[p])].cookie = cookie[q]
        /\ userSessions[String(userId[p])].expiry > 36000 * 1000


\* ------------------------------------------------------------ the scraper
NoDupStrictDesc(list) ==
    /\ \A i, j \in DOMAIN list : i # j => list[i].id # list[j].id
    /\ \A i \in 1..(Len(list) - 1) : parseInt(list[i].id) > parseInt(list[i + 1].id)

\* C11: the list parseArticles returns for a listing page has no two entries
\* with the same id and is strictly descending by the numeric value of the
\* id; the same holds of the list scrapeArticles returns.
C11_UniqueStrictlyDescending ==
    /\ scrapePc = "parsed" => NoDupStrictDesc(parsed)
    /\ scrapeResult.kind = "returned" => NoDupStrictDesc(scrapeResult.val)

\* C12: every id in the output of parseArticles carries the title and url of
\* the first anchor of the page with that id and non-empty text, and an id
\* is in the output only if such an anchor exists; every id in the list
\* scrapeArticles returns carries the title and url of the first such anchor
\* over the pages fetched, in fetch order.
C12_FirstOccurrenceWins ==
    /\ scrapePc = "parsed" =>
          /\ IdsOf(parsed) = PageIds(page)
          /\ \A i \in DOMAIN parsed :
                [title |-> parsed[i].title, url |-> parsed[i].url]
                    = TitleUrl(FirstValid(page, parsed[i].id))
    /\ scrapeResult.kind = "returned" =>
          \A i \in DOMAIN scrapeResult.val :
             LET e == scrapeResult.val[i] IN
             /\ e.id \in DOMAIN firsts
             /\ [title |-> e.title, url |-> e.url] = firsts[e.id]

\* A page parsed whose two anchors carry one id, both with text, under
\* different titles.
C12_Witness ==
    /\ scrapePc = "parsed"
    /\ \E i, j \in DOMAIN page, id \in Ids :
          /\ i < j /\ ValidAt(page, i, id) /\ ValidAt(page, j, id)
          /\ trim(page[i].text) # trim(page[j].text)
          /\ \E k \in DOMAIN parsed :
                parsed[k].id = id /\ parsed[k].title = trim(page[i].text)

PageCount == MAX_OFFSET \div PAGE_STEP + 1

\* C13: in a full scrape the k-th page fetch is the fetch of offset
\* 5 * (k - 1), whatever the earlier fetches came back with, and the scrape
\* has made exactly 53 fetches when it returns.
C13_AllOffsetsFetched ==
    allPages =>
        /\ scrapePc \in {"fetch", "delay"} =>
              /\ offset = PAGE_STEP * (pageFetches - 1)
              /\ offset <= MAX_OFFSET
        /\ scrapePc = "done" => pageFetches = PageCount /\ PageCount = 53

\* A full scrape has returned after some, not all, of its fetches failed.
C13_Witness ==
    /\ allPages /\ scrapePc = "done"
    /\ pageFetches = 53
    /\ pageFailures > 0 /\ pageFailures < 53

\* C14: a full scrape never throws, and the ids of the list it returns are
\* the ids found on the pages whose fetch succeeded; it returns the empty
\* list when every fetch failed.
C14_UnionOfFetchedPages ==
    allPages =>
        /\ scrapeResult.kind # "thrown"
        /\ scrapePc = "done" =>
              /\ scrapeResult.kind = "returned"
              /\ IdsOf(scrapeResult.val) = DOMAIN firsts
              /\ pageFailures = pageFetches => scrapeResult.val = << >>

\* A full scrape all of whose fetches failed has returned the empty list.
C14_Witness ==
    /\ allPages /\ scrapePc = "done"
    /\ pageFailures = 53
    /\ scrapeResult = Returned(<< >>)

\* C15: an incremental scrape fetches offset 0 and nothing else; when that
\* fetch fails the scrape throws, and it returns a list otherwise.
C15_IncrementalPropagates ==
    (~allPages /\ scrapePc \in {"fetch", "done"}) =>
        /\ pageFetches = 1 /\ offset = 0
        /\ scrapePc = "done" =>
              /\ pageFailures = 1 => scrapeResult = Thrown
              /\ pageFailures = 0 => scrapeResult.kind = "returned"

\* An incremental scrape whose fetch failed has thrown.
C15_Witness ==
    /\ ~allPages /\ scrapePc = "done"
    /\ pageFailures = 1
    /\ scrapeResult = Thrown

\* C16: in a full scrape one fetch is in flight at a time, and every fetch
\* after the first is issued by the step that ends the 500 ms delay,
\* including when the fetch before it failed.
C16_DelayBetweenFetches ==
    [][(allPages' /\ pageFetches' = pageFetches + 1 /\ pageFetches >= 1)
          => scrapePc = "delay"]_vars

\* C17: every request carries a timeout, so a call that waits on a server
\* that accepted the connection and never answers still has a step to take.
C17_EveryRequestTimesOut ==
    /\ \A p \in Procs :
          /\ pc[p] = "login" =>
                ENABLED (\E a \in LoginAnswers(FreshToken) : LoginAnswered(p, a))
          /\ pc[p] = "fetch" => ENABLED (\E a \in FetchAnswers : FetchAnswered(p, a))
          /\ pc[p] = "pdf" => ENABLED (\E a \in PdfAnswers : PdfAnswered(p, a))
    /\ scrapePc = "fetch" => ENABLED (\E a \in ScrapeAnswers : PageAnswered(a))

\* ------------------------------------------------------- the seen articles
\* The indices of list whose entry's id is not in seen.
Unseen(list, seen) == {i \in DOMAIN list : list[i].id \notin seen}

\* out is list restricted to the indices in keep, in the order of list.
IsRestriction(out, list, keep) ==
    /\ Len(out) = Cardinality(keep)
    /\ \A k \in DOMAIN out :
          \E i \in keep : /\ out[k] = list[i]
                          /\ Cardinality({j \in keep : j < i}) = k - 1

\* C18: what getNewArticles(current, seen) returns is current restricted to
\* the entries whose id is not in seen, in the order of current: every entry
\* of it is an entry of current, none has its id in seen, and no unseen entry
\* of current is left out.
C18_NewIsUnseenSubsequence ==
    \A n \in DOMAIN newLog :
        /\ IsRestriction(newLog[n], currentList, Unseen(currentList, seenSet))
        /\ IdsOf(newLog[n]) \cap seenSet = {}

\* getNewArticles has returned some, not all, of the entries of the list.
C18_Witness ==
    /\ newLog # << >>
    /\ Len(newLog[1]) >= 1
    /\ Len(newLog[1]) < Len(currentList)

C20_MarkedInMemoryAndOnDisk ==
    marked.done =>
        LET union == marked.seenIds \cup IdsOf(marked.articles) IN
        /\ seenSet = union
        /\ seenFile = SeenFile(union)

\* C21: outside the initial population, a handler that had notifications to
\* send writes its new article ids to the seen-articles file only after one
\* of them was sent successfully; and no handler writes the file while it
\* still waits for its scrape or for a notification.
C21_SeenOnlyAfterNotified ==
    \A h \in Handlers :
        LET c == checks[h] IN
        /\ c.pc \in {"scrape", "send"} => ~c.marksDone
        /\ c.marksDone /\ ~c.shouldScrapeAll /\ c.sends > 0 => c.sentOk >= 1

\* C22: whatever the interleaving of scheduled checks and /check commands,
\* as long as every write of the seen-articles file succeeds, no chat gets
\* two notifications that carry the same article id.
C22_NoDuplicateNotification ==
    ~writeFailed => \A c \in Chats, i \in Ids : delivered[c][i] <= 1

\* C29: checkForUpdates asks for the full scrape exactly when it is the
\* startup run and the seen set it loaded is empty; such a run sends no
\* notification, and when it ends every article id it collected is in the
\* seen-articles file.
C29_BackfillOnlyOnEmptyStartup ==
    /\ [](\A h \in Handlers :
            LET c == checks[h] IN
            /\ c.pc = "scrape" /\ c.kind # "command" =>
                 (c.shouldScrapeAll <=> (c.kind = "startup" /\ c.seenIds = {}))
            /\ c.shouldScrapeAll => c.sends = 0)
    /\ [][\A h \in Handlers :
            checks[h].shouldScrapeAll /\ checks[h].pc = "scrape"
                /\ checks'[h].pc = "done"
            => IdsOf(checks'[h].articles) \subseteq loadSeenArticles(seenFile')]_vars

\* C23: in every result extracted from a document, passed is null exactly
\* when score is null, that is when the subject line did not match; when a
\* score is there, passed tells whether it is at least 70.00: true for the
\* text 70.00, false for 69.99.
C23_PassedIffAtLeast70 ==
    \A p \in Procs :
        op[p] = "fetchExamResultPdf" /\ pc[p] = "done" /\ ~result[p].isNull =>
            LET r == result[p].val IN
            /\ r.passed.isNull <=> r.score.isNull
            /\ r.score.isNull <=> ~r.rawText.scoreMatch
            /\ ~r.score.isNull =>
                 /\ r.passed.val = (~r.score.val.nan /\ r.score.val.v100 >= 7000)
                 /\ r.rawText.scoreText = << "7", "0", ".", "0", "0" >>
                      => r.score.val.v100 = 7000 /\ r.passed.val
                 /\ r.rawText.scoreText = << "6", "9", ".", "9", "9" >>
                      => r.score.val.v100 = 6999 /\ ~r.passed.val

\* A document with the score 70.00 was extracted.
C23_Witness ==
    \E p \in Procs :
        /\ op[p] = "fetchExamResultPdf" /\ pc[p] = "done" /\ ~result[p].isNull
        /\ result[p].val.rawText.scoreMatch
        /\ result[p].val.rawText.scoreText = << "7", "0", ".", "0", "0" >>

\* The labels of LinkTexts that contain, whatever the case of their letters,
\* "detail", "cetak undangan" or "cetak kartu ujian".
DeniedTexts ==
    {<< "D", "e", "t", "a", "i", "l" >>,
     << "C", "E", "T", "A", "K", " ", "U", "N", "D", "A", "N", "G", "A", "N" >>,
     << "L", "i", "h", "a", "t", " ", "C", "e", "t", "a", "k", " ", "K", "a", "r", "t", "u", " ", "U", "j", "i", "a", "n" >>}

\* A text of the pages without the blanks around it: they only lead.
Unpadded(text) == IF text # << >> /\ Head(text) = " " THEN Tail(text) ELSE text

\* C24: parseExamTable returns, in row order, one record for every row with
\* at least six cells whose first cell is neither blank nor the literal KODE;
\* the actions of a record are the anchors of the row's sixth cell, in
\* order, without those whose label contains one of the three excluded
\* phrases in any case; a page without a table gives the empty list.
C24_RowsAndActionsFiltered ==
    called = "parseExamTable" =>
        LET kept == SelectSeq(given.rows,
                              LAMBDA r : /\ r.ncells >= 6
                                         /\ r.kode \notin {<< >>, << " " >>, KODE})
        IN /\ ~given.hasTable => returned = << >>
           /\ given.hasTable =>
                /\ Len(returned) = Len(kept)
                /\ \A i \in DOMAIN kept :
                     LET allowed == SelectSeq(kept[i].links,
                                              LAMBDA l : l.text \notin DeniedTexts)
                         actions == returned[i].actions
                     IN /\ returned[i].kode = Unpadded(kept[i].kode)
                        /\ Len(actions) = Len(allowed)
                        /\ \A j \in DOMAIN allowed :
                             /\ actions[j].link = allowed[j].href
                             /\ actions[j].text = Unpadded(allowed[j].text)

\* parseExamTable was called on a table of which it dropped a row, and kept
\* a row of which it dropped one anchor in upper case and kept the other.
C24_Witness ==
    /\ called = "parseExamTable"
    /\ Len(returned) = 1
    /\ Len(given.rows) = 2
    /\ given.rows[2].links # << >>
    /\ given.rows[2].links[1].text = << "C", "E", "T", "A", "K", " ", "U", "N", "D", "A", "N", "G", "A", "N" >>
    /\ Len(returned[1].actions) = 1

\* C26 as stated: login returns a session exactly when some Set-Cookie value
\* of the answer is named ci_session, with the value of the first such cookie
\* as token and the time of the call plus 36000 s as expiry.
C26_SessionIffCookieNamed ==
    called = "login" =>
        LET named == SelectSeq(given.answer.cookies,
                               LAMBDA c : c.name = "ci_session")
        IN /\ returned # NoSession <=> named # << >>
           /\ named # << >> =>
                /\ returned.cookie = named[1].value
                /\ returned.expiry = given.time + 36000 * 1000

\* C26: login returns a session exactly when some Set-Cookie value of the
\* answer, accepted or attached to the error, is named ci_session and has a
\* non-empty value, with the value of the first such cookie as token and the
\* time of the call plus 36000 s as expiry; in every other case it returns
\* null.
C26_SessionIffCookieWithValue ==
    called = "login" =>
        LET valued == SelectSeq(given.answer.cookies,
                                LAMBDA c : c.name = "ci_session" /\ c.value # 0)
        IN /\ returned # NoSession <=> valued # << >>
           /\ valued # << >> =>
                /\ returned.cookie = valued[1].value
                /\ returned.expiry = given.time + 36000 * 1000
           /\ valued = << >> => returned = NoSession

\* login was answered with an error response whose first ci_session cookie
\* is empty and whose second one carries a token, and returned that token.
C26_Witness ==
    /\ called = "login"
    /\ given.answer.kind = "errResp"
    /\ Len(given.answer.cookies) = 2
    /\ given.answer.cookies[1] = [name |-> "ci_session", value |-> 0]
    /\ given.answer.cookies[2].name = "ci_session"
    /\ returned # NoSession
    /\ returned.cookie = given.answer.cookies[2].value

\* C27: a getSession call that finds a session of its user in the store
\* with now < expiry - 5 min returns the token of that session at once,
\* issues no login and leaves the store as it is; it issues a login only
\* when there is no such session, and a token it returns without a login
\* belongs to a session with now < expiry - 5 min.
C27_CacheHitNoLogin ==
    [][\A p \in Procs :
         started' = started + 1 /\ op'[p] = "getSession"
             /\ StartGetSession(p, userId'[p])
         => LET key == String(userId'[p])
                valid == /\ key \in DOMAIN userSessions
                         /\ now < userSessions[key].expiry - 5 * 60 * 1000
            IN /\ logins'[p] > 0 => ~valid
               /\ valid => /\ pc'[p] = "done"
                           /\ cookie'[p] = userSessions[key].cookie
                           /\ logins'[p] = 0
                           /\ userSessions' = userSessions
               /\ pc'[p] = "done" => valid]_vars

\* A getSession call has returned the token of a cached session without a
\* login.
C27_Witness ==
    \E p \in Procs :
        /\ op[p] = "getSession" /\ pc[p] = "done"
        /\ cached[p] /\ logins[p] = 0
        /\ cookie[p] # 0

\* A step in which the session of key k is deleted by clearSession.
ClearedIn(k) ==
    \E p \in Procs :
        /\ String(userId'[p]) = k
        /\ \/ started' = started + 1 /\ op'[p] = "clearSession"
           \/ clears'[p] = clears[p] + 1

\* A step in which a login of a call for key k has returned a session.
RenewedIn(k) ==
    \E p \in Procs :
        /\ String(userId[p]) = k
        /\ Len(loginLog'[p]) = Len(loginLog[p]) + 1
        /\ loginLog'[p][Len(loginLog'[p])] = "session"

\* C28: when the login of a call fails, the store stays as it is and the
\* call returns null; an entry of the store is replaced or removed only by
\* a login of its user that succeeded or by clearSession.
C28_FailedLoginKeepsStore ==
    [][/\ \A p \in Procs :
            Len(loginLog'[p]) = Len(loginLog[p]) + 1
                /\ loginLog'[p][Len(loginLog'[p])] # "session"
            => /\ userSessions' = userSessions
               /\ pc'[p] = "done"
               /\ cookie'[p] = 0
               /\ result'[p] = Null
       /\ \A k \in DOMAIN userSessions :
            (k \notin DOMAIN userSessions' \/ userSessions'[k] # userSessions[k])
            => RenewedIn(k) \/ ClearedIn(k)]_vars

\* A getSession call whose login failed has returned while the store still
\* holds the expired session of its user.
C28_Witness ==
    \E p \in Procs :
        /\ op[p] = "getSession" /\ pc[p] = "done"
        /\ loginLog[p] # << >>
        /\ loginLog[p][Len(loginLog[p])] # "session"
        /\ String(userId[p]) \in DOMAIN userSessions
        /\ ~(now < userSessions[String(userId[p])].expiry - 5 * 60 * 1000)

C25_NothingThrown ==
    /\ \A p \in Procs : ~raised[p]
    /\ \A h \in Handlers :
         checks[h].kind \in {"startup", "scheduled"} => ~checks[h].raised

\* A call whose login got no answer has returned, or a scheduled check
\* whose scrape threw has ended in its catch block.
C25_Witness ==
    \/ \E p \in Procs :
         /\ pc[p] = "done" /\ loginLog[p] # << >>
         /\ loginLog[p][Len(loginLog[p])] = "transport"
         /\ op[p] = "fetchExamListForUser"
    \/ \E h \in Handlers :
         /\ checks[h].kind = "scheduled" /\ checks[h].pc = "done"
         /\ checks[h].caught

\* C37: when fetchExamListForUser finds its page fetch answered with the
\* login page and calls clearSession, the session it removes from the Map,
\* if there is one, carries the token this call sent and saw expire: a
\* session another call of the same identity stored in between is not
\* removed.
C37_ClearsOnlyExpiredToken ==
    [][\A p \in Procs :
          /\ IsList(p)
          /\ pc[p] = "fetch"
          /\ clears'[p] = clears[p] + 1
          /\ MapHas(userSessions, String(userId[p]))
          => userSessions[String(userId[p])].cookie = cookie[p]]_vars

\* C40: as long as every write of the seen-articles file succeeds, an article
\* id that is in the file stays in it: under any interleaving of scheduled
\* checks and /check commands each write keeps every id the file held before.
C40_SeenFileGrows ==
    [][~writeFailed' =>
          loadSeenArticles(seenFile) \subseteq loadSeenArticles(seenFile')]_vars

\* C33: outside the initial population, when a handler whose own sends all
\* succeeded writes its new article ids to the seen-articles file, every user
\* with reminders enabled has been sent a notification that carried each of
\* those ids, whichever /check commands ran in between.
C33_SeenOnlyAfterAllReminded ==
    [][\A h \in Handlers :
          LET c == checks'[h]
              users == getAllUsersWithReminders(prefs)
          IN /\ ~checks[h].marksDone
             /\ c.marksDone
             /\ ~c.shouldScrapeAll
             /\ c.sentOk = c.sends
             => \A i \in DOMAIN users, id \in IdsOf(c.newArticles) :
                    delivered'[users[i].userId][id] > 0]_vars

\* Handler h, a check of the cron job, calls sendNewArticlesNotification for
\* chat u in this step: u is the first of its list, or the send before it
\* has just been answered.
Notifies(h, u) ==
    /\ checks'[h].kind = "scheduled"
    /\ checks'[h].pc = "send"
    /\ Head(checks'[h].queue) = u
    /\ checks[h].pc # "send" \/ checks'[h].sends = checks[h].sends + 1

\* C32: a check of the cron job sends a notification only to a user whose
\* stored reminderEnabled is true at that moment: once /reminder off of a
\* user has been handled and written, no check sends to that user, also not
\* a check that was in flight when the command came.
C32_NoNotificationAfterOff ==
    [][\A h \in Handlers, u \in Chats :
          Notifies(h, u) => prefs[u].reminderEnabled]_vars

\* C39: a check of the cron job sends a notification only to a user who may
\* use the bot at that moment, the admin or an allowed user: a user whose
\* access was revoked while no check ran is sent none.
C39_NoNotificationAfterRevoke ==
    [][\A h \in Handlers, u \in Chats :
          Notifies(h, u) => canUseBot(allowedUsers, FromId(u))]_vars

\* C31: two notifications that checks of the cron job delivered to a user
\* who set /reminder N come from ticks that are at least N minutes apart,
\* whatever interval the other user chose.
C31_AtMostOncePerInterval ==
    \A u \in Chats, g, h \in Handlers :
        /\ checks[g].kind = "scheduled"
        /\ checks[h].kind = "scheduled"
        /\ u \in checks[g].notified
        /\ u \in checks[h].notified
        /\ checks[g].tick < checks[h].tick
        => checks[h].tick - checks[g].tick >= prefs[u].reminderInterval * 60 * 1000

\* C34: apart from /start logging an access request, a message of a user who
\* is neither the admin nor an allowed user when it is handled has nothing
\* scraped or fetched from PAI and leaves the seen set, the preferences and
\* the access files as they are. (The step after deleteMessage belongs to
\* a message handled earlier.)
C34_UnauthorizedChangesNothing ==
    [][(/\ botLog' # botLog
        /\ botLog'.kind # "deleted"
        /\ ~canUseBot(allowedUsers, FromId(botLog'.from)))
       => /\ botLog'.calls = "none"
          /\ UNCHANGED << prefs, seenFile, allowedUsers, userSessions >>
          /\ botLog'.kind # "start" => UNCHANGED accessRequests]_vars

\* The messages and buttons that grant or revoke access.
GrantKinds == {"grant", "admin_grant_"}

RevokeKinds == {"revoke", "admin_revoke_"}

\* C35: a /grant or /revoke command or an admin_grant_ or admin_revoke_
\* button of anyone but the admin leaves the allowed users and the pending
\* requests as they are; after a grant of the admin the target is an
\* allowed user and has no pending request.
C35_OnlyAdminGrantsAndRevokes ==
    [][(/\ botLog' # botLog
        /\ botLog'.kind \in GrantKinds \cup RevokeKinds)
       => /\ ~isAdmin(FromId(botLog'.from))
                => UNCHANGED << allowedUsers, accessRequests >>
          /\ (isAdmin(FromId(botLog'.from)) /\ botLog'.kind \in GrantKinds)
                => /\ isUserAllowed(allowedUsers', Target(botLog'.target))
                   /\ ~HasRequest(accessRequests', Target(botLog'.target))]_vars

\* The step changes what the credential flow of user u has stored: the flow
\* moves on to the password, or an address or a password is stored.
Advances(u) ==
    \/ prefs[u].paiLoginStep = "email" /\ prefs'[u].paiLoginStep = "password"
    \/ prefs'[u].paiTempEmail \notin {<< >>, prefs[u].paiTempEmail}
    \/ prefs'[u].paiEmail \notin {<< >>, prefs[u].paiEmail}
    \/ prefs'[u].paiPassword \notin {<< >>, prefs[u].paiPassword}

\* One step of the credential flow of the user whose message is handled.
FlowStep ==
    LET u == botLog'.from
        kind == botLog'.kind
        before == prefs[u]
        after == prefs'[u]
    IN  /\ (kind = "setpai" /\ canUseBot(allowedUsers, FromId(u)))
              => after.paiLoginStep = "email"
        /\ (kind = "text" /\ before.paiLoginStep = "email")
              => /\ after.paiLoginStep = "password"
                 /\ after.paiTempEmail # << >>
        /\ (kind = "text" /\ before.paiLoginStep = "password")
              => deleting'[u] # << >>
        /\ (kind = "deleted" /\ before.paiTempEmail # << >>)
              => /\ after.paiLoginStep = "none"
                 /\ after.paiTempEmail = << >>
                 /\ after.paiEmail = before.paiTempEmail
                 /\ after.paiPassword = deleting[u]
        /\ kind \notin {"text", "deleted"} => ~Advances(u)

\* C36: the credential flow is a state machine over the step none, email,
\* password: /setpai moves to email, a text in email stores the temporary
\* email and moves to password, a text in password stores email and
\* password together, clears the temporary email and returns to none; a
\* message that starts with '/' never advances the flow; and in every state
\* the email and the password of a user are both set or both unset.
C36_CredentialFlow ==
    /\ [](\A u \in Chats :
             /\ prefs[u].paiLoginStep \in {"none", "email", "password"}
             /\ (prefs[u].paiEmail = << >>) <=> (prefs[u].paiPassword = << >>))
    /\ [][botLog' # botLog => FlowStep]_vars

\* C38: the token that getSession returned to a call was obtained by a login
\* with the email and password of that call, also after the stored
\* credentials of the user were changed while the session is still valid.
C38_TokenOfSameCredentials ==
    \A p \in Procs :
        HasCookie(cookie[p]) =>
            /\ cookie[p] \in DOMAIN loginOf
            /\ loginOf[cookie[p]] = args[p]

====
